---- MODULE Spec2Model ----
(***************************************************************************)
(* Model of the transcode-video operation handler (src/src/api.ts): the    *)
(* quality planner, the sequential transcode loop with its idempotency     *)
(* guard, the master playlist builder, the find-or-create publisher, the   *)
(* playlist rewriter and the cleanup.  Spec runs the jobs one after the    *)
(* other, SpecAwait shows each awaited call from both ends, SpecConc lets  *)
(* two jobs overlap; SpecPlan, SpecRewrite and SpecTarget apply the pure   *)
(* functions to bounded inputs.                                            *)
(***************************************************************************)
EXTENDS Integers, Sequences, FiniteSets, TLC

VARIABLES
    plan_t,   \* planner harness: the input drawn and the plan computed
    rw_t,     \* rewriter harness: manifest, map, mode and the two outputs
    tgt_t,    \* target storage harness: environment, inputs, location, record
    cfg,      \* what is fixed for a behaviour: drivers, source height, mode
    conc,     \* TRUE when the jobs may interleave
    disk,     \* the output directory: file name -> lines
    temp,     \* the downloaded temp source file exists
    store,    \* the asset store: file records and folder records
    nextId,   \* next identifier the store hands out
    faults,   \* per job: environment failures so far
    job,      \* per job: the handler's locals and its position
    inflight, \* per job: the calls started and not yet settled
    seen,     \* per job: the store as the pending lookup of the job read it
    turn      \* overlapping jobs: the job that is running, the switches so far

hvars == <<cfg, conc, disk, temp, store, nextId, faults, job, inflight, seen, turn>>
vars == <<plan_t, rw_t, tgt_t, cfg, conc, disk, temp, store, nextId, faults, job, inflight, seen, turn>>

(***************************************************************************)
(* Bounds of the model.                                                    *)
(***************************************************************************)
\* longest explicit quality selection drawn for the planner
MaxSel == 2
\* longest manifest drawn for the rewriter
MaxLines == 2
\* segments the encoder writes per rendition
NSeg == 1
\* environment failures in one behaviour
MaxFaults == 1
\* jobs (runs of the handler) in one behaviour
NJobs == 2

\* times the running job changes while the other has not finished
MaxSwitches == 3

(***************************************************************************)
(* Quality planner (api.ts 997-1063).                                      *)
(***************************************************************************)
\* ids of getQualityOptionsRaw, in the order of the returned array
Catalog == <<240, 480, 720, 1080, 2160>>

CatalogIds == {Catalog[i] : i \in 1..Len(Catalog)}

\* qualityHeights: quality id -> target height
QualityHeight(id) ==
    CASE id = 240 -> 240
      [] id = 480 -> 480
      [] id = 720 -> 720
      [] id = 1080 -> 1080
      [] id = 2160 -> 2160

\* A selection entry.  A string entry is its leading decimal digits (lead, <<>>
\* when it has none) followed by a tail; a number entry has str = FALSE.
StrTok(n, tail) == [str |-> TRUE, lead |-> <<n>>, tail |-> tail]
JunkTok(tail) == [str |-> TRUE, lead |-> <<>>, tail |-> tail]
NumTok(n) == [str |-> FALSE, lead |-> <<n>>, tail |-> ""]

\* the default of the `qualities` parameter and of selectedQualities
DefaultQualities ==
    <<StrTok(240, "p"), StrTok(480, "p"), StrTok(720, "p"), StrTok(1080, "p"),
      StrTok(2160, "p")>>

\* q.replace(/p$/i, '')
StripP(t) == IF t.tail \in {"p", "P"} THEN [t EXCEPT !.tail = ""] ELSE t

\* parseInt(cleaned, 10): the leading digits, NaN (<<>>) when there are none
ParseInt10(t) == t.lead

\* the .map callback of selectedQualitiesNumbers
ParseQuality(t) == IF t.str THEN ParseInt10(StripP(t)) ELSE t.lead

\* The `qualities` input: undefined, an array, a string holding a JSON array,
\* a string that is not JSON, or a string holding JSON that is not an array.
QInput(kind, v) == [kind |-> kind, v |-> v]

\* selectedQualities after lines 1002-1014
SelectedQualities(q) ==
    CASE q.kind = "undef" -> DefaultQualities
      [] q.kind = "array" -> q.v
      [] q.kind = "json" -> q.v
      [] q.kind = "badjson" -> DefaultQualities
      [] q.kind = "jsonscalar" -> <<>>

\* JSON.parse gave a value without .map: line 1018 throws a TypeError
SelectionThrows(q) == q.kind = "jsonscalar"

\* selectedQualitiesNumbers: parsed entries, NaN filtered out
SelectedQualitiesNumbers(sel) ==
    {ParseQuality(sel[i])[1] : i \in {k \in 1..Len(sel) : ParseQuality(sel[k]) # <<>>}}

\* line 1039: allQualitiesRaw.filter(quality => selectedQualitiesNumbers.includes(quality.id))
MutBySelectionOrder(sel, nums) ==
    LET hit(i) == ParseQuality(sel[i]) # <<>> /\ ParseQuality(sel[i])[1] \in CatalogIds
        idx == SelectSeq([i \in 1..Len(sel) |-> i], hit)
    IN [i \in 1..Len(idx) |-> ParseQuality(sel[idx[i]])[1]]

BySelection(sel, nums) == SelectSeq(Catalog, LAMBDA id : id \in nums)

\* lines 1043-1050: drop a quality whose target height exceeds the source height
MutNoUpscaleOff(qs, sourceHeight) == qs

MutNoUpscaleFlipped(qs, sourceHeight) ==
    SelectSeq(qs, LAMBDA id : ~(QualityHeight(id) < sourceHeight))

NoUpscale(qs, sourceHeight) ==
    SelectSeq(qs, LAMBDA id : ~(QualityHeight(id) > sourceHeight))

\* qualitiesRaw as it stands at line 1059
QualitiesRaw(q, sourceHeight) ==
    LET sel == SelectedQualities(q)
    IN NoUpscale(BySelection(sel, SelectedQualitiesNumbers(sel)), sourceHeight)

(***************************************************************************)
(* Manifest lines and the playlist rewriter (api.ts 564-639, 1349-1388).   *)
(***************************************************************************)
\* File names of the job and store identifiers are tokens.
QmName(q) == <<"qm", q>>            \* <base>_<q>p.m3u8
SegName(q, i) == <<"seg", q, i>>    \* <base>_<q>p_00i.ts
MasterName == <<"master">>          \* <base>_master.m3u8
ThumbName == <<"thumb">>            \* <base>_thumb.jpg
SrcName == <<"src">>                \* filename_disk of the source
Uuid(n) == <<"id", n>>              \* a store identifier (UUID)

\* A line starting with '#', a blank line (possibly whitespace only), or a
\* reference line: [whitespace] ['/assets/'] ['dir/'] token [whitespace]
Tag(s) == [kind |-> "tag", text |-> s]
Blank(ws) == [kind |-> "blank", ws |-> ws]
Ref(ws, assets, dir, tok) ==
    [kind |-> "ref", ws |-> ws, assets |-> assets, dir |-> dir, tok |-> tok]
Plain(tok) == Ref(FALSE, FALSE, FALSE, tok)
EmptyLine == Blank(FALSE)

\* ''.split('\n') is one empty line: the content of a file of size 0
EmptyContent == <<EmptyLine>>

\* content.trim().length === 0
ContentBlank(c) == \A i \in 1..Len(c) : c[i].kind = "blank"

\* line.trim()
Trim(l) == [l EXCEPT !.ws = FALSE]

\* filename.substring('/assets/'.length) when filename.startsWith('/assets/')
StripAssets(l) == IF l.assets THEN [l EXCEPT !.assets = FALSE] ELSE l

\* path.basename(filename)
Basename(l) == [l EXCEPT !.assets = FALSE, !.dir = FALSE]

\* uuidPattern.test(filename)
UuidTest(l) == ~l.assets /\ ~l.dir /\ l.tok[1] = "id"

\* A FileIdentifierMap key is the string of a reference without whitespace.
KeyOf(l) == <<l.assets, l.dir, l.tok>>
PlainKey(tok) == <<FALSE, FALSE, tok>>

\* fileIdMap[k], <<>> when the key is absent
MapGet(map, k) == IF k \in DOMAIN map THEN <<map[k]>> ELSE <<>>

\* fileIdMap[filename] || fileIdMap[basename] || ...
LookupId(map, l) ==
    IF MapGet(map, KeyOf(l)) # <<>> THEN MapGet(map, KeyOf(l))
    ELSE MapGet(map, KeyOf(Basename(l)))

\* one iteration of the loop of rebuildPlaylist, lines 585-636
MutRebuildNoUuidCheck(line, map, useFilenameDisk) ==
    IF line.kind \in {"tag", "blank"} THEN line
    ELSE LET filename == StripAssets(Trim(line))
             fileId == LookupId(map, filename)
         IN IF fileId # <<>>
            THEN (IF useFilenameDisk THEN filename ELSE Plain(fileId[1]))
            ELSE line

MutRebuildDropMissing(line, map, useFilenameDisk) ==
    IF line.kind \in {"tag", "blank"} THEN line
    ELSE LET filename == StripAssets(Trim(line))
             fileId == LookupId(map, filename)
         IN IF UuidTest(filename) /\ ~useFilenameDisk THEN filename
            ELSE IF fileId # <<>>
            THEN (IF useFilenameDisk THEN filename ELSE Plain(fileId[1]))
            ELSE filename

MutRebuildIgnoreMode(line, map, useFilenameDisk) ==
    IF line.kind \in {"tag", "blank"} THEN line
    ELSE LET filename == StripAssets(Trim(line))
             fileId == LookupId(map, filename)
         IN IF fileId # <<>> THEN Plain(fileId[1]) ELSE line

MutRebuildKeepFilename(line, map, useFilenameDisk) ==
    IF line.kind \in {"tag", "blank"} THEN line
    ELSE LET filename == StripAssets(Trim(line))
             fileId == LookupId(map, filename)
         IN IF fileId # <<>> THEN filename ELSE line

RebuildLine(line, map, useFilenameDisk) ==
    IF line.kind \in {"tag", "blank"} THEN line
    ELSE LET filename == StripAssets(Trim(line))
             fileId == LookupId(map, filename)
         IN IF UuidTest(filename) /\ ~useFilenameDisk THEN filename
            ELSE IF fileId # <<>>
            THEN (IF useFilenameDisk THEN filename ELSE Plain(fileId[1]))
            ELSE line

\* rebuildPlaylist on the lines of an existing, non-blank file
RebuildPlaylist(content, map, useFilenameDisk) ==
    [i \in 1..Len(content) |-> RebuildLine(content[i], map, useFilenameDisk)]

\* one iteration of the inline master rewrite, lines 1355-1388
MasterRewriteLine(line, map, useFilenameDisk) ==
    IF line.kind \in {"tag", "blank"} THEN line
    ELSE LET playlistFilename == StripAssets(Trim(line))
             playlistId == LookupId(map, playlistFilename)
         IN IF UuidTest(playlistFilename) /\ ~useFilenameDisk THEN playlistFilename
            ELSE IF playlistId # <<>>
            THEN (IF useFilenameDisk THEN playlistFilename ELSE Plain(playlistId[1]))
            ELSE line

RewriteMaster(content, map, useFilenameDisk) ==
    [i \in 1..Len(content) |-> MasterRewriteLine(content[i], map, useFilenameDisk)]

(***************************************************************************)
(* The output directory, the encoder and the store.                        *)
(***************************************************************************)
Jobs == 1..NJobs

\* files of other sources that may lie in the output directory:
\* "other" is <base>2.mp4, "otherRend" is <base>2_240p.m3u8 and "unrelRend"
\* is a rendition whose name does not begin with <base>
ExtraChoices == {{}, {<<"other">>, <<"unrelRend">>}, {<<"otherRend">>}}

\* fn.startsWith(filename)
StartsWithBase(n) ==
    n[1] \in {"qm", "seg", "master", "thumb", "src", "other", "otherRend"}

\* file.includes('_240p') || ... || file.includes('_2160p')
HasQualityMarker(n) == n[1] \in {"qm", "seg", "otherRend", "unrelRend"}

\* segmentFile.endsWith('.ts')
EndsWithTs(n) == n[1] = "seg"

Bin == <<Tag(<<"data">>)>>

Exists(d, n) == n \in DOMAIN d
Size0(d, n) == d[n] = EmptyContent
WriteFile(d, n, c) == [x \in DOMAIN d \cup {n} |-> IF x = n THEN c ELSE d[x]]
WriteAll(d, ns, c) == [x \in DOMAIN d \cup ns |-> IF x \in ns THEN c ELSE d[x]]
Unlink(d, ns) == [x \in DOMAIN d \ ns |-> d[x]]

\* readFiles: fs.readdirSync(dir).filter(fn => fn.startsWith(filename))
MutReadFilesAll(d) == DOMAIN d

ReadFiles(d) == {n \in DOMAIN d : StartsWithBase(n)}

MutGuardSeesNothing(d) == FALSE

\* line 1067: existingFiles.some(file => file.includes('_240p') || ...)
HasFiles(d) == \E n \in ReadFiles(d) : HasQualityMarker(n)

\* the per-quality manifest the encoder writes: header, one reference per
\* segment, and the line after the final newline
EncodedManifest(q) ==
    <<Tag(<<"#EXTM3U">>)>> \o [i \in 1..NSeg |-> Plain(SegName(q, i))] \o <<EmptyLine>>

SegNames(q) == {SegName(q, i) : i \in 1..NSeg}

\* What one encoder invocation may leave behind (ffmpeg -y overwrites).
EncOutcomes == {"ok", "exit", "exitPartial", "stderr", "nofile", "empty", "noheader"}

EncoderWrites(d, q, o) ==
    CASE o \in {"ok", "stderr"} ->
            WriteFile(WriteAll(d, SegNames(q), Bin), QmName(q), EncodedManifest(q))
      [] o = "exit" -> d
      [] o = "exitPartial" -> WriteFile(d, SegName(q, 1), Bin)
      [] o = "nofile" -> WriteAll(d, SegNames(q), Bin)
      [] o = "empty" -> WriteFile(d, QmName(q), EmptyContent)
      [] o = "noheader" -> WriteFile(d, QmName(q), <<Tag(<<"#EXT-X-VERSION:3">>)>>)

\* playlistContent.includes('#EXTM3U')
HasHeader(c) == \E i \in 1..Len(c) : c[i] = Tag(<<"#EXTM3U">>)

\* the callback of exec in ffmpegRawSync (663-718): TRUE when it resolves
MutFfmpegNoVerify(d, q, o) == o \notin {"exit", "exitPartial"}

MutFfmpegNoHeaderCheck(d, q, o) ==
    /\ o \notin {"exit", "exitPartial", "stderr"}
    /\ Exists(d, QmName(q))
    /\ ~Size0(d, QmName(q))

FfmpegResolves(d, q, o) ==
    /\ o \notin {"exit", "exitPartial"}
    /\ o # "stderr"
    /\ Exists(d, QmName(q))
    /\ ~Size0(d, QmName(q))
    /\ HasHeader(d[QmName(q)])

\* env.STORAGE_LOCATIONS: <<>> when unset or empty, else its entries, each a
\* name that may be written with blanks around it ("local, s3")
Location(name, ws) == [name |-> name, ws |-> ws]

\* lines 149-153: storageLocations, every entry trimmed
StorageLocations(envLocations) ==
    [i \in 1..Len(envLocations) |-> envLocations[i].name]

\* line 154: defaultStorageAdapter
MutDefaultLastLocation(storageLocations) ==
    IF Len(storageLocations) > 0 THEN storageLocations[Len(storageLocations)] ELSE "local"

DefaultStorageAdapter(storageLocations) ==
    IF Len(storageLocations) > 0 THEN storageLocations[1] ELSE "local"

\* env.STORAGE_LOCATIONS of a behaviour of the handler
EnvLocations ==
    IF cfg.tgtLocal THEN <<Location("local", FALSE), Location("s3", TRUE)>>
    ELSE <<Location("s3", FALSE), Location("local", TRUE)>>

\* the default storage location of a behaviour of the handler
TargetStorageAdapter == DefaultStorageAdapter(StorageLocations(EnvLocations))

\* folder_id of the input and the folder name (the source base name)
ParentFolder == "parent"
BaseName == "base"

\* the storage location of the source file
SourceStorage == IF cfg.srcLocal THEN "local" ELSE "s3"

\* env[STORAGE_<LOCATION>_DRIVER], <<>> when the key is not set: "bare" is a
\* location with no key at all, "rootless" one with a driver and no root
StorageDriver(location) ==
    CASE location = "local" -> <<"local">>
      [] location = "s3" -> <<"s3">>
      [] location = "rootless" -> <<"local">>
      [] location = "bare" -> <<>>

\* env[STORAGE_<LOCATION>_ROOT], <<>> when the key is not set
StorageRoot(location) ==
    IF location \in {"local", "s3"} THEN <<"uploads">> ELSE <<>>

\* validateStorageExists (157-161)
ValidateStorageExists(location) == StorageDriver(location) # <<>>

\* resolveStorage (164-174): the root, <<>> for null
ResolveStorage(location) == StorageRoot(location)

\* getStorageDriver (176-187): 'local' when no driver is configured
GetStorageDriver(location) ==
    IF StorageDriver(location) # <<>> THEN StorageDriver(location)[1] ELSE "local"

\* lines 189-206: the location chosen; <<>> stands for an absent value
MutChooseTargetNoSource(storage_adapter, target_storage, fileStorage, defaultStorageAdapter) ==
    IF storage_adapter = "custom" /\ target_storage # <<>>
    THEN target_storage[1]
    ELSE defaultStorageAdapter

ChooseTarget(storage_adapter, target_storage, fileStorage, defaultStorageAdapter) ==
    IF storage_adapter = "source"
    THEN (IF fileStorage # <<>> THEN fileStorage[1] ELSE defaultStorageAdapter)
    ELSE IF storage_adapter = "custom" /\ target_storage # <<>>
    THEN target_storage[1]
    ELSE defaultStorageAdapter

\* line 196: the custom location has no driver configured
ChooseTargetThrows(storage_adapter, target_storage) ==
    /\ storage_adapter = "custom"
    /\ target_storage # <<>>
    /\ ~ValidateStorageExists(target_storage[1])

(***************************************************************************)
(* The handler's locals.                                                   *)
(***************************************************************************)
NoResult == [kind |-> "none"]
Thrown(msg) == [kind |-> "throw", msg |-> msg]
ErrorResult(msg) == [kind |-> "error", msg |-> msg]

EmptyMap == [k \in {} |-> 0]

InitJob ==
    [pc |-> "validate", file |-> FALSE, folder_id |-> FALSE, fileObject |-> <<>>,
     targetStorageAdapter |-> <<>>,
     qualities |-> QInput("undef", <<>>), sourceHeight |-> 0,
     isHighBitDepth |-> FALSE, metadata |-> <<>>, probeFailed |-> {},
     newMasterLines |-> <<>>,
     needsCleanup |-> FALSE, qualitiesRaw |-> <<>>, k |-> 1, hasFiles |-> FALSE,
     dirAtScan |-> {}, encoded |-> <<>>, validAtBuild |-> <<>>, built |-> <<>>,
     made |-> {}, tried |-> <<>>, failed |-> {}, rebuilt |-> EmptyMap,
     undeleted |-> {},
     targetFolderId |-> <<>>,
     thumbnailId |-> <<>>, fileIdMap |-> EmptyMap, uploadedFiles |-> <<>>,
     segmentFiles |-> <<>>, masterId |-> <<>>, result |-> NoResult]

\* the `qualities` inputs the jobs are run with
JobQualities ==
    {QInput("undef", <<>>),
     QInput("array", <<StrTok(1080, "p")>>),
     QInput("array", <<StrTok(720, "p"), StrTok(240, "p")>>),
     QInput("jsonscalar", <<>>)}

\* probed heights of the source
JobHeights == {480, 1080}

\* height substituted when the geometry probe fails (line 990)
FallbackHeight == 99999

Configs ==
    [srcLocal : BOOLEAN, tgtLocal : BOOLEAN, height : JobHeights,
     useFilenameDisk : BOOLEAN, extras : ExtraChoices]

InitDisk(c) ==
    [n \in c.extras \cup (IF c.srcLocal THEN {SrcName} ELSE {}) |-> Bin]

HandlerInit ==
    /\ cfg \in Configs
    /\ conc = FALSE
    /\ disk = InitDisk(cfg)
    /\ temp = FALSE
    /\ store = [files |-> {}, folders |-> {}, bytes |-> EmptyMap]
    /\ nextId = 1
    /\ faults = [j \in Jobs |-> 0]
    /\ job = [j \in Jobs |-> InitJob]
    /\ inflight = [j \in Jobs |-> <<>>]
    /\ seen = [j \in Jobs |-> <<>>]
    /\ turn = [on |-> 1, n |-> 0]

Upd(j, r) == job' = [job EXCEPT ![j] = r]

\* the awaited call of a step has settled when the step goes on
Settle(j) == inflight' = [inflight EXCEPT ![j] = <<>>]

\* readByQuery and createOne / uploadOne are two awaited calls (380 and 397,
\* 468 and 508 / 520): the lookup of a registration reads the store as it is
\* when the query is answered, the creation acts on the store as it is then
Seen(j) == IF seen[j] = <<>> THEN store ELSE seen[j][1]

Unsee(j) == seen' = [seen EXCEPT ![j] = <<>>]

\* the store after a registration that looked up in sn and left `out` of it:
\* what it created is added to the store st of the moment of creation
Registered(sn, st, out) ==
    [files |-> st.files \cup (out.files \ sn.files),
     folders |-> st.folders \cup (out.folders \ sn.folders),
     bytes |-> [k \in DOMAIN st.bytes \cup DOMAIN out.bytes |->
                  IF k \in DOMAIN out.bytes \ DOMAIN sn.bytes
                  THEN out.bytes[k] ELSE st.bytes[k]]]

\* the handler of job j returns or throws
End(j, r, res) == Upd(j, [r EXCEPT !.pc = "done", !.result = res])

RECURSIVE SumTo(_, _)
SumTo(f, n) == IF n = 0 THEN 0 ELSE f[n] + SumTo(f, n - 1)

\* environment failures so far, over all jobs
TotalFaults == SumTo(faults, NJobs)

CanFault == TotalFaults < MaxFaults

Fault(j, b) == faults' = IF b THEN [faults EXCEPT ![j] = @ + 1] ELSE faults

\* a job runs when it is its turn: after the jobs before it, or interleaved
Scheduled(j) == conc \/ \A i \in 1..(j - 1) : job[i].pc = "done"

(***************************************************************************)
(* The handler, one action per step (api.ts 722-1467).                     *)
(***************************************************************************)
\* The `file` input: absent, a file object (with or without filename_disk), or
\* the identifier of a record that readOne finds (with or without
\* filename_disk) or does not find.
FileInputs == {"missing", "object", "objectNoDisk", "uuid", "uuidNoDisk", "uuidUnknown"}

\* storage of the file objects drawn: the source location, or one not configured
FileStorages == {SourceStorage, "bare"}

\* fileObject after lines 121-138, <<>> when readOne threw
FileObject(f, storage) ==
    CASE f \in {"object", "uuid"} -> <<[filename_disk |-> TRUE, storage |-> storage]>>
      [] f \in {"objectNoDisk", "uuidNoDisk"} ->
            <<[filename_disk |-> FALSE, storage |-> storage]>>
      [] OTHER -> <<>>

\* the checks of lines 110-143 in their order: the message thrown, <<>> when
\* the inputs pass
MutValidationNoFolderCheck(f, folder, fo) ==
    IF f = "missing" THEN <<"Input file missing">>
    ELSE IF fo = <<>> THEN <<"Failed to fetch file with UUID">>
    ELSE IF ~fo[1].filename_disk THEN <<"Input file missing filename_disk">>
    ELSE <<>>

ValidationError(f, folder, fo) ==
    IF f = "missing" THEN <<"Input file missing">>
    ELSE IF ~folder THEN <<"folder_id parameter is required">>
    ELSE IF fo = <<>> THEN <<"Failed to fetch file with UUID">>
    ELSE IF ~fo[1].filename_disk THEN <<"Input file missing filename_disk">>
    ELSE <<>>

\* lines 110-143: input validation; fileObject is assigned once the file
\* input and folder_id are there and the record, if asked for, was fetched
Validate(j) ==
    /\ job[j].pc = "validate"
    /\ Scheduled(j)
    /\ \E f \in FileInputs, folder \in BOOLEAN, storage \in FileStorages :
         LET fo == FileObject(f, storage)
             err == ValidationError(f, folder, fo)
             early == err # <<>> /\ err[1] \in {"Input file missing",
                                                 "folder_id parameter is required"}
             r == [job[j] EXCEPT !.file = f # "missing", !.folder_id = folder,
                                 !.fileObject = IF early THEN <<>> ELSE fo]
         IN IF err # <<>>
            THEN End(j, r, Thrown(err[1]))
            ELSE Upd(j, [r EXCEPT !.pc = "storage"])
    /\ UNCHANGED <<plan_t, rw_t, tgt_t, cfg, conc, disk, temp, store, nextId, faults, inflight, seen, turn>>

\* storage_adapter and target_storage as the jobs are run with them; mode
\* 'source' and a custom location other than the default are not drawn
TargetInputs ==
    {<<"default", <<>>>>, <<"custom", <<>>>>, <<"custom", <<TargetStorageAdapter>>>>,
     <<"custom", <<"bare">>>>, <<"custom", <<"rootless">>>>}

\* lines 189-212: the target storage location
ResolveTarget(j) ==
    /\ job[j].pc = "storage"
    /\ \E t \in TargetInputs :
         IF ChooseTargetThrows(t[1], t[2])
         THEN End(j, job[j], Thrown("Custom storage location does not exist"))
         ELSE Upd(j, [job[j] EXCEPT !.pc = "start",
                        !.targetStorageAdapter =
                            <<ChooseTarget(t[1], t[2], <<job[j].fileObject[1].storage>>,
                                           TargetStorageAdapter)>>])
    /\ UNCHANGED <<plan_t, rw_t, tgt_t, cfg, conc, disk, temp, store, nextId, faults, inflight, seen, turn>>

\* targetStorageDriver === 'local' (212)
IsLocalTarget(j) == GetStorageDriver(job[j].targetStorageAdapter[1]) = "local"

\* sourceStorageDriver === 'local' (750)
IsLocalSource(j) == GetStorageDriver(job[j].fileObject[1].storage) = "local"

\* lines 743-949: the source path; a remote source is downloaded to a temp file
Acquire(j) ==
    /\ job[j].pc = "start"
    /\ \E q \in JobQualities, dl \in {"ok", "fail", "failPartial"} :
         LET r == [job[j] EXCEPT !.qualities = q]
             local == IsLocalSource(j)
             noSource == local /\ (\/ ResolveStorage(r.fileObject[1].storage) = <<>>
                                   \/ ~Exists(disk, SrcName))
             noTarget == IsLocalTarget(j) /\ ResolveStorage(r.targetStorageAdapter[1]) = <<>>
         IN /\ (dl # "ok") => (CanFault /\ ~local)
            /\ Fault(j, dl # "ok")
            /\ temp' = IF local \/ dl = "fail" THEN temp ELSE TRUE
            /\ IF noSource
               THEN End(j, job[j], ErrorResult(
                        IF ResolveStorage(r.fileObject[1].storage) = <<>>
                        THEN "No storage found for location"
                        ELSE "Source file not found"))
               ELSE IF dl # "ok"
               THEN End(j, r, ErrorResult("Failed to download source file"))
               ELSE IF noTarget
               THEN End(j, [job[j] EXCEPT !.needsCleanup = ~local],
                        ErrorResult("No storage found for target location"))
               ELSE Upd(j, [r EXCEPT !.pc = "ffcheck", !.needsCleanup = ~local])
    /\ UNCHANGED <<plan_t, rw_t, tgt_t, cfg, conc, disk, store, nextId, inflight, seen, turn>>

\* lines 951-958: checkFFmpegAvailable
CheckFFmpeg(j) ==
    /\ job[j].pc = "ffcheck"
    /\ \E ok \in BOOLEAN :
         /\ ~ok => CanFault
         /\ Fault(j, ~ok)
         /\ IF ok THEN Upd(j, [job[j] EXCEPT !.pc = "probe"])
            ELSE End(j, job[j], Thrown("FFmpeg is not installed"))
    /\ UNCHANGED <<plan_t, rw_t, tgt_t, cfg, conc, disk, temp, store, nextId, inflight, seen, turn>>

\* what ffprobe reports for a source of height h: a 16:9 frame, a duration in
\* milliseconds, and a 10-bit pixel format for the 1080 source
SourceProbe(h) ==
    [width |-> (h * 16) \div 9, height |-> h, isVertical |-> FALSE,
     duration |-> h * 10, tenBit |-> h = 1080]

\* lines 961-979: isHighBitDepth, false when the probe fails
MutBitDepthAssumeHigh(ok, h) == ok => SourceProbe(h).tenBit

IsHighBitDepth(ok, h) == ok /\ SourceProbe(h).tenBit

\* lines 987-991: getVideoMetadata(filePath).catch(...)
MutMetadataNoFallback(ok, h) ==
    [width |-> SourceProbe(h).width, height |-> h, isVertical |-> FALSE,
     duration |-> SourceProbe(h).duration]

SourceMetadata(ok, h) ==
    IF ok
    THEN [width |-> SourceProbe(h).width, height |-> h, isVertical |-> FALSE,
          duration |-> SourceProbe(h).duration]
    ELSE [width |-> FallbackHeight, height |-> FallbackHeight, isVertical |-> FALSE,
          duration |-> 0]

\* lines 960-994: bit depth and geometry; a failed probe gives the fallback
Probe(j) ==
    /\ job[j].pc = "probe"
    /\ \E bitOk \in BOOLEAN, ok \in BOOLEAN :
         LET n == (IF bitOk THEN 0 ELSE 1) + (IF ok THEN 0 ELSE 1)
             md == SourceMetadata(ok, cfg.height)
         IN /\ TotalFaults + n <= MaxFaults
            /\ faults' = [faults EXCEPT ![j] = @ + n]
            /\ Upd(j, [job[j] EXCEPT !.pc = "plan",
                         !.isHighBitDepth = IsHighBitDepth(bitOk, cfg.height),
                         !.metadata = <<md>>,
                         !.sourceHeight = md.height,
                         !.probeFailed = (IF bitOk THEN {} ELSE {"bitdepth"})
                                           \cup (IF ok THEN {} ELSE {"geometry"})])
    /\ UNCHANGED <<plan_t, rw_t, tgt_t, cfg, conc, disk, temp, store, nextId, inflight, seen, turn>>

\* lines 996-1085 up to the first encoder call: the plan, then the guard scan
PlanAndGuard(j) ==
    /\ job[j].pc = "plan"
    /\ LET plan == QualitiesRaw(job[j].qualities, job[j].sourceHeight)
           r == [job[j] EXCEPT !.qualitiesRaw = plan, !.hasFiles = HasFiles(disk),
                               !.dirAtScan = DOMAIN disk, !.k = 1]
       IN IF SelectionThrows(job[j].qualities)
          THEN End(j, job[j], Thrown("selectedQualities.map is not a function"))
          ELSE IF Len(plan) = 0
          THEN End(j, r, ErrorResult("No quality levels selected for transcoding"))
          ELSE Upd(j, [r EXCEPT !.pc = IF HasFiles(disk) THEN "build" ELSE "encode"])
    /\ UNCHANGED <<plan_t, rw_t, tgt_t, cfg, conc, disk, temp, store, nextId, faults, inflight, seen, turn>>

\* lines 1072-1081: one iteration of the transcode loop (ffmpegRawSync)
Encode(j) ==
    /\ job[j].pc = "encode"
    /\ \E o \in EncOutcomes :
         LET q == job[j].qualitiesRaw[job[j].k]
             d == EncoderWrites(disk, q, o)
             r == [job[j] EXCEPT !.encoded = Append(@, [q |-> q, o |-> o])]
         IN /\ (o # "ok") => CanFault
            /\ Fault(j, o # "ok")
            /\ disk' = d
            /\ IF ~FfmpegResolves(d, q, o)
               THEN End(j, r, Thrown("FFmpeg transcoding failed"))
               ELSE IF job[j].k < Len(job[j].qualitiesRaw)
               THEN Upd(j, [r EXCEPT !.k = @ + 1])
               ELSE Upd(j, [r EXCEPT !.pc = "build"])
    /\ UNCHANGED <<plan_t, rw_t, tgt_t, cfg, conc, temp, store, nextId, seen, turn>>
    /\ Settle(j)

\* the directive of a quality in the master playlist (the switch at 1094-1110)
StreamInf(q) ==
    CASE q = 240 -> Tag(<<"#EXT-X-STREAM-INF", 400000, 426, 240>>)
      [] q = 480 -> Tag(<<"#EXT-X-STREAM-INF", 1400000, 854, 480>>)
      [] q = 720 -> Tag(<<"#EXT-X-STREAM-INF", 2800000, 1280, 720>>)
      [] q = 1080 -> Tag(<<"#EXT-X-STREAM-INF", 5000000, 1920, 1080>>)
      [] q = 2160 -> Tag(<<"#EXT-X-STREAM-INF", 20000000, 3840, 2160>>)

MasterHeader == <<Tag(<<"#EXTM3U">>), Tag(<<"#EXT-X-VERSION:3">>)>>

\* fs.existsSync(qualityFile) && fs.statSync(qualityFile).size > 0
MutQualityFileExists(d, q) == Exists(d, QmName(q))

MutQualityFileAlways(d, q) == TRUE

QualityFileValid(d, q) == Exists(d, QmName(q)) /\ ~Size0(d, QmName(q))

\* m3u8Content after the loop at 1091-1112
RECURSIVE MasterBlocks(_, _)
MasterBlocks(d, qs) ==
    IF qs = <<>> THEN <<>>
    ELSE (IF QualityFileValid(d, Head(qs))
          THEN <<StreamInf(Head(qs)), Plain(QmName(Head(qs)))>>
          ELSE <<>>) \o MasterBlocks(d, Tail(qs))

M3u8Content(d, qs) == MasterHeader \o MasterBlocks(d, qs)

\* the files of the directory that exist with a size above 0
NonEmptyFiles(d) == {n \in DOMAIN d : ~Size0(d, n)}

\* lines 1087-1133: build and write the master playlist
BuildMaster(j) ==
    /\ job[j].pc = "build"
    /\ LET m == M3u8Content(disk, job[j].qualitiesRaw)
           r == [job[j] EXCEPT !.validAtBuild = <<NonEmptyFiles(disk)>>]
       IN IF Len(m) <= 2
          THEN /\ End(j, r, ErrorResult("No valid quality playlists found"))
               /\ disk' = disk
          ELSE /\ disk' = WriteFile(disk, MasterName, m)
               /\ Upd(j, [r EXCEPT !.pc = "folder", !.built = m])
    /\ UNCHANGED <<plan_t, rw_t, tgt_t, cfg, conc, temp, store, nextId, faults, inflight, seen, turn>>

MutFoldersFoundNone(st, name, parent) == {}

\* foldersService.readByQuery({name, parent})
FoldersFound(st, name, parent) ==
    {f \in st.folders : f.name = name /\ f.parent = parent}

\* ensureFolder (364-412) when the store answers: find, else create
MutEnsureFolderAlwaysCreate(st, nid, name, parent) ==
    [id |-> Uuid(nid), nextId |-> nid + 1,
     store |-> [st EXCEPT !.folders =
                   @ \cup {[id |-> Uuid(nid), name |-> name, parent |-> parent]}]]

EnsureFolder(st, nid, name, parent) ==
    IF FoldersFound(st, name, parent) # {}
    THEN [id |-> (CHOOSE f \in FoldersFound(st, name, parent) : TRUE).id,
          nextId |-> nid, store |-> st]
    ELSE [id |-> Uuid(nid), nextId |-> nid + 1,
          store |-> [st EXCEPT !.folders =
                        @ \cup {[id |-> Uuid(nid), name |-> name, parent |-> parent]}]]

\* the target folder, among the names of what a job registers
FolderName == <<"folder">>

\* `tried` keeps, in order, what the job asked the store to register and
\* `failed` the registrations that threw
Attempt(r, name, ok) ==
    [r EXCEPT !.tried = Append(@, name),
              !.failed = IF ok THEN @ ELSE @ \cup {name}]

\* lines 1138-1142
MakeFolder(j) ==
    /\ job[j].pc = "folder"
    /\ \E ok \in BOOLEAN :
         /\ ~ok => CanFault
         /\ Fault(j, ~ok)
         /\ IF ok
            THEN LET e == EnsureFolder(Seen(j), nextId, BaseName, ParentFolder)
                 IN /\ store' = Registered(Seen(j), store, e.store)
                    /\ nextId' = e.nextId
                    /\ Upd(j, [Attempt(job[j], FolderName, TRUE) EXCEPT
                                 !.pc = "thumb", !.targetFolderId = <<e.id>>,
                                 !.made = IF e.nextId = nextId THEN @ ELSE @ \cup {e.id}])
            ELSE /\ End(j, Attempt(job[j], FolderName, FALSE), Thrown("Error creating folder"))
                 /\ UNCHANGED <<store, nextId>>
    /\ UNCHANGED <<plan_t, rw_t, tgt_t, cfg, conc, disk, temp, inflight, turn>>
    /\ Unsee(j)

\* filesService.readByQuery({filename_disk, storage, folder}, limit 1)
FilesFound(st, name, storage, folder) ==
    {f \in st.files : f.name = name /\ f.storage = storage /\ f.folder = folder}

\* uploadFileToDirectus (417-561) when the file is on disk and the store
\* answers: reuse the record found, else createOne / uploadOne
\* bytes holds, per identifier, what uploadOne streamed to a remote storage;
\* a file registered in place (createOne) has no entry: its content is the
\* file in the storage root
StoreBytes(bytes, id, stream) ==
    IF stream = <<>> THEN bytes
    ELSE [k \in DOMAIN bytes \cup {id} |-> IF k = id THEN stream[1] ELSE bytes[k]]

MutUploadAlwaysCreate(st, nid, name, storage, folder, stream) ==
    [id |-> Uuid(nid), nextId |-> nid + 1,
     store |-> [st EXCEPT !.files =
                   @ \cup {[id |-> Uuid(nid), name |-> name, storage |-> storage,
                            folder |-> folder]},
                          !.bytes = StoreBytes(@, Uuid(nid), stream)]]

UploadFileToDirectus(st, nid, name, storage, folder, stream) ==
    IF FilesFound(st, name, storage, folder) # {}
    THEN [id |-> (CHOOSE f \in FilesFound(st, name, storage, folder) : TRUE).id,
          nextId |-> nid, store |-> st]
    ELSE [id |-> Uuid(nid), nextId |-> nid + 1,
          store |-> [st EXCEPT !.files =
                        @ \cup {[id |-> Uuid(nid), name |-> name, storage |-> storage,
                                 folder |-> folder]},
                               !.bytes = StoreBytes(@, Uuid(nid), stream)]]

\* lines 505-523: createOne for a local target, uploadOne of the file's
\* content for a remote one
Stream(j, content) == IF IsLocalTarget(j) THEN <<>> ELSE <<content>>

\* fileIdMap[name] = id; uploadedFiles.push({filename_disk: name, id});
\* `made` keeps the identifiers the store created for this job
MutRecordMapOnly(r, name, id) ==
    [r EXCEPT !.made = IF id[2] >= nextId THEN @ \cup {id} ELSE @,
              !.fileIdMap = [k \in DOMAIN @ \cup {PlainKey(name)} |->
                                IF k = PlainKey(name) THEN id ELSE @[k]]]

Record(r, name, id) ==
    [r EXCEPT !.made = IF id[2] >= nextId THEN @ \cup {id} ELSE @,
              !.fileIdMap = [k \in DOMAIN @ \cup {PlainKey(name)} |->
                                IF k = PlainKey(name) THEN id ELSE @[k]],
              !.uploadedFiles = Append(@, [name |-> name, id |-> id])]

\* lines 1144-1189: look the thumbnail up in the store, else extract it
ThumbnailLookup(j) ==
    /\ job[j].pc = "thumb"
    /\ LET found == FilesFound(store, ThumbName, job[j].targetStorageAdapter[1],
                               job[j].targetFolderId[1])
       IN \E o \in {"ok", "queryFails", "extractFails", "extractEmpty"} :
            /\ (o # "ok") => CanFault
            /\ (o \in {"extractFails", "extractEmpty"}) => found = {}
            /\ Fault(j, o # "ok")
            /\ IF o = "queryFails"
               THEN /\ End(j, job[j], Thrown("readByQuery failed"))
                    /\ disk' = disk
               ELSE /\ disk' = IF found # {} \/ o = "extractFails" THEN disk
                               ELSE IF o = "extractEmpty"
                               THEN WriteFile(disk, ThumbName, EmptyContent)
                               ELSE WriteFile(disk, ThumbName, Bin)
                    /\ Upd(j, [job[j] EXCEPT !.pc = "thumbUpload",
                                 !.thumbnailId = IF found # {}
                                     THEN <<(CHOOSE f \in found : TRUE).id>>
                                     ELSE <<>>])
    /\ UNCHANGED <<plan_t, rw_t, tgt_t, cfg, conc, temp, store, nextId, inflight, seen, turn>>

\* lines 1191-1235: register the thumbnail; a failure is logged and swallowed
ThumbnailUpload(j) ==
    /\ job[j].pc = "thumbUpload"
    /\ \E ok \in BOOLEAN :
         LET r == job[j]
             reuse == r.thumbnailId # <<>>
             onDisk == Exists(disk, ThumbName) /\ ~Size0(disk, ThumbName)
             u == UploadFileToDirectus(Seen(j), nextId, ThumbName,
                                       job[j].targetStorageAdapter[1],
                                       r.targetFolderId[1], Stream(j, disk[ThumbName]))
         IN /\ ~ok => (CanFault /\ ~reuse /\ onDisk)
            /\ Fault(j, ~ok)
            /\ IF reuse
               THEN /\ Upd(j, [Record(r, ThumbName, r.thumbnailId[1]) EXCEPT !.pc = "collect"])
                    /\ UNCHANGED <<store, nextId>>
               ELSE IF onDisk /\ ok
               THEN /\ store' = Registered(Seen(j), store, u.store)
                    /\ nextId' = u.nextId
                    /\ Upd(j, [Record(Attempt(r, ThumbName, TRUE), ThumbName, u.id) EXCEPT
                                 !.pc = "collect", !.thumbnailId = <<u.id>>])
               ELSE /\ Upd(j, [(IF onDisk THEN Attempt(r, ThumbName, FALSE) ELSE r)
                                 EXCEPT !.pc = "collect"])
                    /\ UNCHANGED <<store, nextId>>
    /\ UNCHANGED <<plan_t, rw_t, tgt_t, cfg, conc, disk, temp, turn>>
    /\ Unsee(j)
    /\ Settle(j)

\* lines 1247-1262: the segment names one playlist adds to segmentFiles
RECURSIVE CollectLines(_, _, _)
CollectLines(d, c, acc) ==
    IF c = <<>> THEN acc
    ELSE LET l == Head(c)
             seg == Basename(Trim(l)).tok
             take == /\ l.kind = "ref"
                     /\ EndsWithTs(seg) /\ StartsWithBase(seg)
                     /\ Exists(d, seg)
                     /\ \A i \in 1..Len(acc) : acc[i] # seg
         IN CollectLines(d, Tail(c), IF take THEN Append(acc, seg) ELSE acc)

\* lines 1241-1264: segmentFiles, in insertion order
RECURSIVE CollectSegmentFiles(_, _, _)
CollectSegmentFiles(d, qs, acc) ==
    IF qs = <<>> THEN acc
    ELSE CollectSegmentFiles(d, Tail(qs),
            IF Exists(d, QmName(Head(qs)))
            THEN CollectLines(d, d[QmName(Head(qs))], acc) ELSE acc)

CollectSegments(j) ==
    /\ job[j].pc = "collect"
    /\ LET segs == CollectSegmentFiles(disk, job[j].qualitiesRaw, <<>>)
       IN Upd(j, [job[j] EXCEPT !.segmentFiles = segs, !.k = 1,
                                !.pc = IF segs = <<>> THEN "playlists" ELSE "segments"])
    /\ UNCHANGED <<plan_t, rw_t, tgt_t, cfg, conc, disk, temp, store, nextId, faults, inflight, seen, turn>>

\* lines 1268-1282: one iteration of the segment loop; a failure is swallowed
UploadSegment(j) ==
    /\ job[j].pc = "segments"
    /\ \E ok \in BOOLEAN :
         LET r == job[j]
             seg == r.segmentFiles[r.k]
             onDisk == Exists(disk, seg)
             u == UploadFileToDirectus(Seen(j), nextId, seg,
                                       job[j].targetStorageAdapter[1],
                                       r.targetFolderId[1], Stream(j, disk[seg]))
             nxt == IF r.k < Len(r.segmentFiles)
                    THEN [r EXCEPT !.k = @ + 1]
                    ELSE [r EXCEPT !.k = 1, !.pc = "playlists"]
         IN /\ ~ok => (CanFault /\ onDisk)
            /\ Fault(j, ~ok)
            /\ IF onDisk /\ ok
               THEN /\ store' = Registered(Seen(j), store, u.store)
                    /\ nextId' = u.nextId
                    /\ Upd(j, Record(Attempt(nxt, seg, TRUE), seg, u.id))
               ELSE /\ Upd(j, IF onDisk THEN Attempt(nxt, seg, FALSE) ELSE nxt)
                    /\ UNCHANGED <<store, nextId>>
    /\ UNCHANGED <<plan_t, rw_t, tgt_t, cfg, conc, disk, temp, turn>>
    /\ Unsee(j)
    /\ Settle(j)

\* lines 1309 and 1390: fs.writeFileSync of a rewritten manifest
MutSkipRewrite(d, name, content) == d

WriteRebuilt(d, name, content) == WriteFile(d, name, content)

\* lines 1290-1323: one iteration of the quality playlist loop: rebuild the
\* playlist, write it, register it; a failed registration is swallowed
PublishQualityPlaylist(j) ==
    /\ job[j].pc = "playlists"
    /\ \E ok \in BOOLEAN :
         LET r == job[j]
             q == r.qualitiesRaw[r.k]
             name == QmName(q)
             skip == ~Exists(disk, name) \/ Size0(disk, name)
             throws == ~skip /\ ContentBlank(disk[name])
             rebuilt == RebuildPlaylist(disk[name], r.fileIdMap, cfg.useFilenameDisk)
             u == UploadFileToDirectus(Seen(j), nextId, name,
                                       job[j].targetStorageAdapter[1],
                                       r.targetFolderId[1], Stream(j, rebuilt))
             nxt == IF r.k < Len(r.qualitiesRaw)
                    THEN [r EXCEPT !.k = @ + 1]
                    ELSE [r EXCEPT !.k = 1, !.pc = "master"]
             wrote == [nxt EXCEPT !.rebuilt =
                          [n \in DOMAIN @ \cup {name} |-> IF n = name THEN rebuilt ELSE @[n]]]
         IN /\ ~ok => (CanFault /\ ~skip /\ ~throws)
            /\ Fault(j, ~ok)
            /\ IF skip
               THEN /\ Upd(j, nxt)
                    /\ UNCHANGED <<disk, store, nextId>>
               ELSE IF throws
               THEN /\ End(j, r, Thrown("Playlist file content is empty"))
                    /\ UNCHANGED <<disk, store, nextId>>
               ELSE /\ disk' = WriteRebuilt(disk, name, rebuilt)
                    /\ IF ok
                       THEN /\ store' = Registered(Seen(j), store, u.store)
                            /\ nextId' = u.nextId
                            /\ Upd(j, Record(Attempt(wrote, name, TRUE), name, u.id))
                       ELSE /\ Upd(j, Attempt(wrote, name, FALSE))
                            /\ UNCHANGED <<store, nextId>>
    /\ UNCHANGED <<plan_t, rw_t, tgt_t, cfg, conc, temp, turn>>
    /\ Unsee(j)
    /\ Settle(j)

\* lines 1325-1405: rewrite the master playlist, write it, register it; a
\* failed registration leaves masterId null
PublishMaster(j) ==
    /\ job[j].pc = "master"
    /\ \E ok \in BOOLEAN :
         LET bad == \/ ~Exists(disk, MasterName)
                    \/ Size0(disk, MasterName)
                    \/ ContentBlank(disk[MasterName])
             rewritten == RewriteMaster(disk[MasterName], job[j].fileIdMap,
                                        cfg.useFilenameDisk)
             r == [job[j] EXCEPT !.newMasterLines = rewritten]
             u == UploadFileToDirectus(Seen(j), nextId, MasterName,
                                       job[j].targetStorageAdapter[1],
                                       r.targetFolderId[1], Stream(j, rewritten))
         IN /\ ~ok => (CanFault /\ ~bad)
            /\ Fault(j, ~ok)
            /\ IF bad
               THEN /\ End(j, job[j], ErrorResult("Master playlist file is missing or empty"))
                    /\ UNCHANGED <<disk, store, nextId>>
               ELSE /\ disk' = WriteRebuilt(disk, MasterName, rewritten)
                    /\ IF ok
                       THEN /\ store' = Registered(Seen(j), store, u.store)
                            /\ nextId' = u.nextId
                            /\ Upd(j, [Record(Attempt(r, MasterName, TRUE), MasterName, u.id)
                                         EXCEPT !.pc = "finish", !.masterId = <<u.id>>])
                       ELSE /\ Upd(j, [Attempt(r, MasterName, FALSE) EXCEPT !.pc = "finish"])
                            /\ UNCHANGED <<store, nextId>>
    /\ UNCHANGED <<plan_t, rw_t, tgt_t, cfg, conc, temp, turn>>
    /\ Unsee(j)
    /\ Settle(j)

\* availableQualities (1444-1451)
AvailableQualities(d, qs) == SelectSeq(qs, LAMBDA q : Exists(d, QmName(q)))

\* lines 1409-1417: the files the local cleanup unlinks
MutDeleteSegmentsOnly(d, isLocalTarget) ==
    IF isLocalTarget THEN {} ELSE {n \in ReadFiles(d) : EndsWithTs(n)}

MutDeleteAlways(d, isLocalTarget) == ReadFiles(d) \ {SrcName}

FilesToDelete(d, isLocalTarget) ==
    IF isLocalTarget THEN {} ELSE ReadFiles(d) \ {SrcName}

\* lines 1409-1442 and 1453-1466: an unlink that throws is caught and logged
\* (1421-1423, 1439-1441) and the handler goes on to its return statement
MutCleanupFatal(r, d, unlinkFailed) ==
    IF unlinkFailed
    THEN Thrown("Could not delete local file")
    ELSE [kind |-> "ok", masterId |-> r.masterId,
          availableQualities |-> AvailableQualities(d, r.qualitiesRaw),
          thumbnail |-> r.thumbnailId, files |-> r.uploadedFiles]

AfterCleanup(r, d, unlinkFailed) ==
    [kind |-> "ok", masterId |-> r.masterId,
     availableQualities |-> AvailableQualities(d, r.qualitiesRaw),
     thumbnail |-> r.thumbnailId, files |-> r.uploadedFiles]

\* lines 1407-1466: local cleanup for a remote target, temp source cleanup,
\* then the result; a failed unlink is logged and swallowed
Finish(j) ==
    /\ job[j].pc = "finish"
    /\ LET r == job[j]
           doomed == FilesToDelete(disk, IsLocalTarget(j))
       IN \E kept \in {{}} \cup {{f} : f \in doomed}, tempStays \in BOOLEAN :
            LET n == (IF kept = {} THEN 0 ELSE 1) + (IF tempStays THEN 1 ELSE 0)
                d == Unlink(disk, doomed \ kept)
            IN /\ TotalFaults + n <= MaxFaults
               /\ tempStays => (r.needsCleanup /\ temp)
               /\ faults' = [faults EXCEPT ![j] = @ + n]
               /\ disk' = d
               /\ temp' = IF r.needsCleanup /\ ~tempStays THEN FALSE ELSE temp
               /\ End(j, [r EXCEPT !.undeleted = kept], AfterCleanup(r, d, n > 0))
    /\ UNCHANGED <<plan_t, rw_t, tgt_t, cfg, conc, store, nextId, inflight, seen, turn>>

\* The awaited call the handler makes at its position, <<>> when the step
\* there makes none: ffmpegRawSync (1075) or uploadFileToDirectus (1219,
\* 1276, 1314, 1395).
CallAt(j) ==
    LET r == job[j]
        content(n) == Exists(disk, n) /\ ~Size0(disk, n)
    IN CASE r.pc = "encode" ->
                <<[op |-> "ffmpeg", what |-> QmName(r.qualitiesRaw[r.k])]>>
         [] r.pc = "thumbUpload" /\ r.thumbnailId = <<>> /\ content(ThumbName) ->
                <<[op |-> "register", what |-> ThumbName]>>
         [] r.pc = "segments" /\ Exists(disk, r.segmentFiles[r.k]) ->
                <<[op |-> "register", what |-> r.segmentFiles[r.k]]>>
         [] r.pc = "playlists" /\ content(QmName(r.qualitiesRaw[r.k]))
                /\ ~ContentBlank(disk[QmName(r.qualitiesRaw[r.k])]) ->
                <<[op |-> "register", what |-> QmName(r.qualitiesRaw[r.k])]>>
         [] r.pc = "master" /\ content(MasterName) /\ ~ContentBlank(disk[MasterName]) ->
                <<[op |-> "register", what |-> MasterName]>>
         [] OTHER -> <<>>

\* `await`: the handler does not go on while a call it made is pending
MutNoAwait(j) == FALSE

Suspended(j) == inflight[j] # <<>>

\* the call the step makes, if it makes one, is pending
Awaited(j) == (CallAt(j) # <<>>) => (inflight[j] # <<>>)

\* the handler makes the call of its position
CallStart(j) ==
    /\ CallAt(j) # <<>>
    /\ ~Suspended(j)
    /\ inflight' = [inflight EXCEPT ![j] = @ \o CallAt(j)]
    /\ UNCHANGED <<plan_t, rw_t, tgt_t, cfg, conc, disk, temp, store, nextId, faults, job, seen, turn>>

(***************************************************************************)
(* Harness of the planner: draw an input, compute the plan.                *)
(***************************************************************************)
PlanTokens ==
    {StrTok(240, "p"), StrTok(480, "p"), StrTok(720, "p"), StrTok(1080, "p"),
     StrTok(2160, "p"), StrTok(720, "P"), StrTok(480, "px"), StrTok(360, "p"),
     JunkTok("abc"), NumTok(1080)}

RECURSIVE SeqsUpTo(_, _)
SeqsUpTo(S, n) ==
    IF n = 0 THEN {<<>>}
    ELSE LET shorter == SeqsUpTo(S, n - 1)
         IN shorter \cup {Append(s, x) : s \in {t \in shorter : Len(t) = n - 1}, x \in S}

PlanInputs ==
    {QInput("undef", <<>>), QInput("badjson", <<>>), QInput("jsonscalar", <<>>),
     QInput("array", DefaultQualities)}
    \cup {QInput(kd, v) : kd \in {"array", "json"}, v \in SeqsUpTo(PlanTokens, MaxSel)}

PlanHeights == {144, 240, 479, 480, 720, 1080, 2160, FallbackHeight}

PlanIdle == [stage |-> "idle"]

PlanInit == plan_t \in [stage : {"in"}, q : PlanInputs, h : PlanHeights, out : {<<>>}]

\* run lines 1002-1063 on the input drawn
PlanCompute ==
    /\ plan_t.stage = "in"
    /\ plan_t' = [plan_t EXCEPT !.stage = "out",
                    !.out = IF SelectionThrows(plan_t.q) THEN <<"throw">>
                            ELSE <<"plan", QualitiesRaw(plan_t.q, plan_t.h)>>]
    /\ UNCHANGED <<rw_t, tgt_t, hvars>>

(***************************************************************************)
(* Harness of the rewriter: draw a manifest and a map, rewrite twice.      *)
(***************************************************************************)
RwFile == SegName(240, 1)
RwToks == {RwFile, Uuid(1), Uuid(2)}
RwKeys == {PlainKey(RwFile), <<FALSE, TRUE, RwFile>>, PlainKey(Uuid(1)), PlainKey(Uuid(2))}
RwIds == {Uuid(1), Uuid(2)}

RwLines ==
    {Tag(<<"#EXTINF">>), Blank(FALSE), Blank(TRUE)}
    \cup {Ref(w, a, d, t) : w \in BOOLEAN, a \in BOOLEAN, d \in BOOLEAN, t \in RwToks}

RwManifests == SeqsUpTo(RwLines, MaxLines) \ {<<>>}

RwMaps == UNION {[K -> RwIds] : K \in SUBSET RwKeys}

RwIdle == [stage |-> "idle"]

RwInit ==
    rw_t \in [stage : {"in"}, m : RwManifests, map : RwMaps, useFilenameDisk : BOOLEAN,
              q1 : {<<>>}, q2 : {<<>>}, m1 : {<<>>}, m2 : {<<>>}]

\* rebuildPlaylist / the master rewrite on a file holding `c`: <<>> when the
\* content is blank (rebuildPlaylist throws, the handler returns an error)
RebuildOf(c, map, fn) == IF ContentBlank(c) THEN <<>> ELSE RebuildPlaylist(c, map, fn)
MasterOf(c, map, fn) == IF ContentBlank(c) THEN <<>> ELSE RewriteMaster(c, map, fn)

RewriteOnce ==
    /\ rw_t.stage = "in"
    /\ rw_t' = [rw_t EXCEPT !.stage = "once",
                  !.q1 = RebuildOf(rw_t.m, rw_t.map, rw_t.useFilenameDisk),
                  !.m1 = MasterOf(rw_t.m, rw_t.map, rw_t.useFilenameDisk)]
    /\ UNCHANGED <<plan_t, tgt_t, hvars>>

RewriteTwice ==
    /\ rw_t.stage = "once"
    /\ rw_t.q1 # <<>>
    /\ rw_t' = [rw_t EXCEPT !.stage = "twice",
                  !.q2 = RebuildOf(rw_t.q1, rw_t.map, rw_t.useFilenameDisk),
                  !.m2 = MasterOf(rw_t.m1, rw_t.map, rw_t.useFilenameDisk)]
    /\ UNCHANGED <<plan_t, tgt_t, hvars>>

(***************************************************************************)
(* Harness of the target storage: draw the environment and the inputs,    *)
(* choose the location, register one artifact under it.                   *)
(***************************************************************************)
TgtEnvs ==
    {<<>>,
     <<Location("local", FALSE)>>,
     <<Location("local", FALSE), Location("s3", TRUE)>>,
     <<Location("s3", TRUE), Location("local", FALSE)>>}

TgtIdle == [stage |-> "idle"]

TgtInit ==
    tgt_t \in [stage : {"in"}, env : TgtEnvs,
               storage_adapter : {"default", "source", "custom"},
               target_storage : {<<>>, <<"local">>, <<"s3">>, <<"bare">>},
               fileStorage : {<<>>, <<"local">>, <<"s3">>},
               target : {<<>>}, records : {{}}]

\* lines 148-206
TargetChoose ==
    /\ tgt_t.stage = "in"
    /\ tgt_t' = IF ChooseTargetThrows(tgt_t.storage_adapter, tgt_t.target_storage)
                THEN [tgt_t EXCEPT !.stage = "thrown"]
                ELSE [tgt_t EXCEPT !.stage = "chosen",
                        !.target = <<ChooseTarget(tgt_t.storage_adapter,
                                        tgt_t.target_storage, tgt_t.fileStorage,
                                        DefaultStorageAdapter(StorageLocations(tgt_t.env)))>>]
    /\ UNCHANGED <<plan_t, rw_t, hvars>>

\* uploadFileToDirectus of the master manifest on an empty store: the records
\* the store holds afterwards
TargetRegister ==
    /\ tgt_t.stage = "chosen"
    /\ tgt_t' = [tgt_t EXCEPT !.stage = "registered",
                    !.records = UploadFileToDirectus(store, nextId, MasterName,
                                    tgt_t.target[1], Uuid(0), <<>>).store.files]
    /\ UNCHANGED <<plan_t, rw_t, hvars>>

(***************************************************************************)
(* Specifications.                                                         *)
(***************************************************************************)
HandlerIdle ==
    /\ cfg = [srcLocal |-> TRUE, tgtLocal |-> TRUE, height |-> 1080,
              useFilenameDisk |-> FALSE, extras |-> {}]
    /\ conc = FALSE
    /\ disk = InitDisk(cfg)
    /\ temp = FALSE
    /\ store = [files |-> {}, folders |-> {}, bytes |-> EmptyMap]
    /\ nextId = 1
    /\ faults = [j \in Jobs |-> 0]
    /\ job = [j \in Jobs |-> InitJob]
    /\ inflight = [j \in Jobs |-> <<>>]
    /\ seen = [j \in Jobs |-> <<>>]
    /\ turn = [on |-> 1, n |-> 0]

Init == HandlerInit /\ plan_t = PlanIdle /\ rw_t = RwIdle /\ tgt_t = TgtIdle

Step(j) ==
    \/ Validate(j)
    \/ ResolveTarget(j)
    \/ Acquire(j)
    \/ CheckFFmpeg(j)
    \/ Probe(j)
    \/ PlanAndGuard(j)
    \/ Encode(j)
    \/ BuildMaster(j)
    \/ MakeFolder(j)
    \/ ThumbnailLookup(j)
    \/ ThumbnailUpload(j)
    \/ CollectSegments(j)
    \/ UploadSegment(j)
    \/ PublishQualityPlaylist(j)
    \/ PublishMaster(j)
    \/ Finish(j)

Next == \E j \in Jobs : Step(j)

Spec == Init /\ [][Next]_vars

\* a step of the handler with its awaited call, if any, seen from both ends:
\* a step that makes a call goes on when the call it started settles
StepAwait(j) ==
    \/ CallStart(j)
    \/ Validate(j)
    \/ ResolveTarget(j)
    \/ Acquire(j)
    \/ CheckFFmpeg(j)
    \/ Probe(j)
    \/ PlanAndGuard(j)
    \/ Awaited(j) /\ Encode(j)
    \/ BuildMaster(j)
    \/ MakeFolder(j)
    \/ ThumbnailLookup(j)
    \/ Awaited(j) /\ ThumbnailUpload(j)
    \/ CollectSegments(j)
    \/ Awaited(j) /\ UploadSegment(j)
    \/ Awaited(j) /\ PublishQualityPlaylist(j)
    \/ Awaited(j) /\ PublishMaster(j)
    \/ Finish(j)

\* The handler with the two ends of every awaited call apart: a call is
\* started, then the step that made it goes on when the call settles.
NextAwait == \E j \in Jobs : StepAwait(j)

SpecAwait == Init /\ [][NextAwait]_vars

\* Jobs that overlap: the operation is started again for the same source
\* file, output directory, target and parent folder while a job is running.
\* The code between two awaits runs to its end before another job goes on,
\* so the jobs interleave at the steps of the handler, and at the answer of
\* the lookup query inside ensureFolder and uploadFileToDirectus.
ConcConfigs ==
    {c \in Configs : c.srcLocal /\ c.height = 480 /\ c.extras = {} /\ ~c.useFilenameDisk}

ConcInit ==
    /\ cfg \in ConcConfigs
    /\ conc = TRUE
    /\ disk = InitDisk(cfg)
    /\ temp = FALSE
    /\ store = [files |-> {}, folders |-> {}, bytes |-> EmptyMap]
    /\ nextId = 1
    /\ faults = [j \in Jobs |-> 0]
    /\ job = [j \in Jobs |-> InitJob]
    /\ inflight = [j \in Jobs |-> <<>>]
    /\ seen = [j \in Jobs |-> <<>>]
    /\ turn = [on |-> 1, n |-> 0]

InitConc == ConcInit /\ plan_t = PlanIdle /\ rw_t = RwIdle /\ tgt_t = TgtIdle

\* the step of job j, if any, that asks the store to find or create
Registers(j) ==
    \/ job[j].pc = "folder"
    \/ CallAt(j) # <<>> /\ CallAt(j)[1].op = "register"

\* lines 378-380 and 468-471: readByQuery is answered
Lookup(j) ==
    /\ Registers(j)
    /\ seen[j] = <<>>
    /\ seen' = [seen EXCEPT ![j] = <<store>>]
    /\ UNCHANGED <<plan_t, rw_t, tgt_t, cfg, conc, disk, temp, store, nextId, faults, job, inflight, turn>>

\* Every await of a job lets another job run. Another job is taken up at
\* most MaxSwitches times while the running one is unfinished.
Yield(j) ==
    /\ turn.on # j
    /\ job[j].pc # "done"
    /\ job[turn.on].pc # "done" => turn.n < MaxSwitches
    /\ turn' = [on |-> j, n |-> IF job[turn.on].pc = "done" THEN turn.n ELSE turn.n + 1]
    /\ UNCHANGED <<plan_t, rw_t, tgt_t, cfg, conc, disk, temp, store, nextId, faults, job, inflight, seen>>

Running(j) == turn.on = j

\* a registration goes on to its creation once its lookup is answered
Looked(j) == Registers(j) => seen[j] # <<>>

\* the overlapping jobs are given the same valid inputs (the source file,
\* the default target and the default qualities) and meet no failure of
\* the environment other than what they do to each other
SameFile(j) == job'[j].fileObject = <<[filename_disk |-> TRUE, storage |-> SourceStorage]>>

SameTarget(j) == job'[j].targetStorageAdapter = <<TargetStorageAdapter>>

SameQualities(j) == job'[j].qualities = QInput("undef", <<>>)

Quiet == faults' = faults

StepConc(j) ==
    \/ Yield(j)
    \/ Running(j) /\ Lookup(j)
    \/ Running(j) /\ Validate(j) /\ job'[j].pc = "storage" /\ SameFile(j)
    \/ Running(j) /\ ResolveTarget(j) /\ SameTarget(j)
    \/ Running(j) /\ Acquire(j) /\ SameQualities(j) /\ Quiet
    \/ Running(j) /\ CheckFFmpeg(j) /\ Quiet
    \/ Running(j) /\ Probe(j) /\ Quiet
    \/ Running(j) /\ PlanAndGuard(j)
    \/ Running(j) /\ Encode(j) /\ Quiet
    \/ Running(j) /\ BuildMaster(j)
    \/ Running(j) /\ Looked(j) /\ MakeFolder(j) /\ Quiet
    \/ Running(j) /\ ThumbnailLookup(j) /\ Quiet
    \/ Running(j) /\ Looked(j) /\ ThumbnailUpload(j) /\ Quiet
    \/ Running(j) /\ CollectSegments(j)
    \/ Running(j) /\ Looked(j) /\ UploadSegment(j) /\ Quiet
    \/ Running(j) /\ Looked(j) /\ PublishQualityPlaylist(j) /\ Quiet
    \/ Running(j) /\ Looked(j) /\ PublishMaster(j) /\ Quiet
    \/ Running(j) /\ Finish(j) /\ Quiet

NextConc == \E j \in Jobs : StepConc(j)

SpecConc == InitConc /\ [][NextConc]_vars

InitPlan == PlanInit /\ rw_t = RwIdle /\ tgt_t = TgtIdle /\ HandlerIdle

NextPlan == PlanCompute

SpecPlan == InitPlan /\ [][NextPlan]_vars

InitRewrite == RwInit /\ plan_t = PlanIdle /\ tgt_t = TgtIdle /\ HandlerIdle

NextRewrite == RewriteOnce \/ RewriteTwice

SpecRewrite == InitRewrite /\ [][NextRewrite]_vars

InitTarget == TgtInit /\ plan_t = PlanIdle /\ rw_t = RwIdle /\ HandlerIdle

NextTarget == TargetChoose \/ TargetRegister

SpecTarget == InitTarget /\ [][NextTarget]_vars

(***************************************************************************)
(* Properties.                                                             *)
(***************************************************************************)
IsPrefix(s, t) == Len(s) <= Len(t) /\ \A i \in 1..Len(s) : s[i] = t[i]

EncodedIds(j) == [i \in 1..Len(job[j].encoded) |-> job[j].encoded[i].q]

\* the catalog ids a selection and a source height allow
LegalIds(q, h) ==
    {id \in {240, 480, 720, 1080, 2160} :
        id \in SelectedQualitiesNumbers(SelectedQualities(q)) /\ id <= h}

\* the job has run the planner (the probe, which comes just before, sets sourceHeight)
Planned(j) ==
    /\ job[j].sourceHeight # 0
    /\ job[j].pc # "plan"
    /\ ~SelectionThrows(job[j].qualities)

\* C1: every quality id of a job's plan is at most the source height the
\* planner used, and the encoder is never invoked for a quality above it.
C1_NoUpscaling ==
    \A j \in Jobs :
        /\ \A i \in 1..Len(job[j].qualitiesRaw) :
               job[j].qualitiesRaw[i] <= job[j].sourceHeight
        /\ \A i \in 1..Len(job[j].encoded) :
               job[j].encoded[i].q <= job[j].sourceHeight

\* a job whose selection held a quality above the source has encoded its plan
C1_Witness ==
    \E j \in Jobs :
        /\ job[j].qualities.kind = "undef"
        /\ job[j].sourceHeight = 480
        /\ EncodedIds(j) = <<240, 480>>

\* C2: the plan is exactly the catalog ids that are in the parsed selection
\* and at most the source height (equal is kept), in ascending catalog order
\* whatever the order or repetition of the selection; all five selected with
\* source height 1080 give [240, 480, 720, 1080].
C2_PlanExact ==
    (plan_t.stage = "out" /\ plan_t.out[1] = "plan") =>
        LET plan == plan_t.out[2]
        IN /\ {plan[i] : i \in 1..Len(plan)} = LegalIds(plan_t.q, plan_t.h)
           /\ \A i \in 1..(Len(plan) - 1) : plan[i] < plan[i + 1]
           /\ (plan_t.q = QInput("array", DefaultQualities) /\ plan_t.h = 1080)
                  => plan = <<240, 480, 720, 1080>>

\* a selection given out of order, with an id equal to the source height
C2_Witness ==
    /\ plan_t.stage = "out"
    /\ plan_t.q = QInput("array", <<StrTok(720, "p"), StrTok(240, "p")>>)
    /\ plan_t.h = 720
    /\ plan_t.out = <<"plan", <<240, 720>>>>

\* C3: with an empty plan the handler returns the typed 'no quality levels
\* selected' error, and in that run the encoder is not invoked, no master
\* manifest is written and nothing is created in the store.
C3_EmptyPlan ==
    \A j \in Jobs :
        (Planned(j) /\ LegalIds(job[j].qualities, job[j].sourceHeight) = {}) =>
            /\ job[j].pc = "done"
            /\ job[j].result = ErrorResult("No quality levels selected for transcoding")
            /\ job[j].encoded = <<>>
            /\ job[j].built = <<>>
            /\ job[j].made = {}

\* selection ["1080p"] on a source probed at 480
C3_Witness ==
    \E j \in Jobs :
        /\ job[j].qualities = QInput("array", <<StrTok(1080, "p")>>)
        /\ job[j].sourceHeight = 480
        /\ job[j].result.kind = "error"

\* outcomes of an encoder invocation that exit nonzero or fail verification
EncoderFailures == {"exit", "exitPartial", "nofile", "empty", "noheader"}

\* C4: when the encoder invocation of a planned quality exits nonzero or its
\* output fails verification the job aborts there: no later quality is
\* encoded, no master manifest is built and nothing is registered in that run.
C4_FailFast ==
    \A j \in Jobs : \A i \in 1..Len(job[j].encoded) :
        job[j].encoded[i].o \in EncoderFailures =>
            /\ i = Len(job[j].encoded)
            /\ job[j].pc = "done"
            /\ job[j].result.kind = "throw"
            /\ job[j].built = <<>>
            /\ job[j].made = {}
            /\ job[j].uploadedFiles = <<>>

\* the second quality of a plan failed verification after the first succeeded
C4_Witness ==
    \E j \in Jobs :
        /\ Len(job[j].qualitiesRaw) > 2
        /\ Len(job[j].encoded) = 2
        /\ job[j].encoded[1].o = "ok"
        /\ job[j].encoded[2].o = "empty"

\* the job is past the guard scan with a plan to encode
Scanned(j) == Planned(j) /\ job[j].qualitiesRaw # <<>>

\* the directory held, at the scan, a file that begins with the base name and
\* contains a quality marker
MarkedAtScan(j) ==
    \E n \in job[j].dirAtScan : StartsWithBase(n) /\ HasQualityMarker(n)

\* C5: if the output directory holds, at the guard scan, a file whose name
\* starts with the base name and contains a quality marker, the encoder is
\* invoked zero times in the job; otherwise it is invoked once per planned
\* quality, in plan order, until the first failure.
C5_Guard ==
    \A j \in Jobs :
        Scanned(j) =>
            IF MarkedAtScan(j)
            THEN job[j].encoded = <<>> /\ job[j].pc # "encode"
            ELSE /\ IsPrefix(EncodedIds(j), job[j].qualitiesRaw)
                 /\ \A i \in 1..(Len(job[j].encoded) - 1) : job[j].encoded[i].o = "ok"
                 /\ (job[j].pc = "encode") => job[j].k = Len(job[j].encoded) + 1
                 /\ (job[j].pc # "encode" /\ EncodedIds(j) # job[j].qualitiesRaw) =>
                        /\ job[j].encoded # <<>>
                        /\ job[j].encoded[Len(job[j].encoded)].o # "ok"
                        /\ job[j].result.kind = "throw"

\* a job found marked files of an earlier run and went on without encoding
C5_Witness ==
    \E j \in Jobs :
        /\ Scanned(j) /\ MarkedAtScan(j)
        /\ job[j].pc = "done" /\ job[j].result.kind = "ok"
        /\ job[j].encoded = <<>>

\* job j ran to its end with no environment failure
CleanRun(j) == job[j].pc = "done" /\ faults[j] = 0

\* C6: a second run with the same inputs on the output directory left by a
\* successful first run (local target) invokes the encoder zero times and
\* returns a success result whose master manifest lists the same qualities
\* and whose master identifier is the first run's.
C6_Rerun ==
    ( /\ cfg.tgtLocal
      /\ job[1].pc = "done" /\ job[1].result.kind = "ok" /\ job[1].masterId # <<>>
      /\ job[2].qualities = job[1].qualities
      /\ job[2].sourceHeight = job[1].sourceHeight
      /\ Scanned(2) ) =>
        /\ job[2].encoded = <<>>
        /\ CleanRun(2) =>
               /\ job[2].result.kind = "ok"
               /\ job[2].built = job[1].built
               /\ job[2].result.masterId = job[1].result.masterId

\* the second run of a job that encoded four renditions has returned
C6_Witness ==
    /\ cfg.tgtLocal
    /\ Len(job[1].encoded) = 4
    /\ job[1].result.kind = "ok"
    /\ job[2].qualities = job[1].qualities
    /\ CleanRun(2)
    /\ job[2].result.kind = "ok"
    /\ job[2].result.masterId = job[1].result.masterId
    /\ job[2].result.masterId # <<>>

\* C7: in identifier mode the rewrite is idempotent: applied to its own
\* output with the same map, rebuildPlaylist and the master rewrite return
\* that output unchanged.
C7_Idempotent ==
    (rw_t.stage = "twice" /\ ~rw_t.useFilenameDisk) =>
        rw_t.q2 = rw_t.q1 /\ rw_t.m2 = rw_t.m1

\* a manifest whose reference was replaced by an identifier, rewritten again
C7_Witness ==
    /\ rw_t.stage = "twice" /\ ~rw_t.useFilenameDisk
    /\ rw_t.m = <<Tag(<<"#EXTINF">>), Ref(TRUE, TRUE, FALSE, RwFile)>>
    /\ rw_t.q1 = <<Tag(<<"#EXTINF">>), Plain(Uuid(2))>>
    /\ PlainKey(Uuid(2)) \in DOMAIN rw_t.map
    /\ rw_t.q2 = rw_t.q1

\* the token of a reference line and its basename are both absent from the map
Unmapped(l, map) ==
    /\ KeyOf(StripAssets(Trim(l))) \notin DOMAIN map
    /\ KeyOf(Basename(StripAssets(Trim(l)))) \notin DOMAIN map

\* the token left after trimming and stripping '/assets/' is identifier-shaped
IdShaped(l) == UuidTest(StripAssets(Trim(l)))

\* C8 as stated: the rewrite emits as many lines as it reads, in order;
\* directive and blank lines unchanged, and a reference line whose token and
\* basename are both absent from the map unchanged.
C8_Original ==
    (rw_t.stage \in {"once", "twice"} /\ rw_t.q1 # <<>>) =>
        /\ Len(rw_t.q1) = Len(rw_t.m)
        /\ \A i \in 1..Len(rw_t.m) :
              /\ rw_t.m[i].kind \in {"tag", "blank"} => rw_t.q1[i] = rw_t.m[i]
              /\ (rw_t.m[i].kind = "ref" /\ Unmapped(rw_t.m[i], rw_t.map))
                    => rw_t.q1[i] = rw_t.m[i]

\* C8 (amended): as C8, except that in identifier mode an unmapped reference
\* line whose token is identifier-shaped is emitted as that bare token,
\* without its whitespace and '/assets/' prefix.
C8_LinesKept ==
    (rw_t.stage \in {"once", "twice"} /\ rw_t.q1 # <<>>) =>
        /\ Len(rw_t.q1) = Len(rw_t.m)
        /\ Len(rw_t.m1) = Len(rw_t.m)
        /\ \A i \in 1..Len(rw_t.m) :
              /\ rw_t.m[i].kind \in {"tag", "blank"} =>
                    rw_t.q1[i] = rw_t.m[i] /\ rw_t.m1[i] = rw_t.m[i]
              /\ (rw_t.m[i].kind = "ref" /\ Unmapped(rw_t.m[i], rw_t.map)) =>
                    IF IdShaped(rw_t.m[i]) /\ ~rw_t.useFilenameDisk
                    THEN rw_t.q1[i] = Plain(rw_t.m[i].tok)
                         /\ rw_t.m1[i] = Plain(rw_t.m[i].tok)
                    ELSE rw_t.q1[i] = rw_t.m[i] /\ rw_t.m1[i] = rw_t.m[i]

\* an unmapped file name with whitespace and a directory, kept as it was,
\* after a directive line
C8_Witness ==
    /\ rw_t.stage = "once"
    /\ rw_t.m = <<Tag(<<"#EXTINF">>), Ref(TRUE, TRUE, TRUE, RwFile)>>
    /\ Unmapped(rw_t.m[2], rw_t.map)
    /\ rw_t.map # EmptyMap
    /\ rw_t.q1 = rw_t.m

\* C9: publishing an artifact the store already holds (same basename, storage
\* location and folder) returns the record's identifier and creates nothing:
\* the store never holds two records for one (basename, location, folder),
\* every identifier a job got for a file is the identifier of the store's
\* record of that file, and two publishes of a file get the same identifier.
C9_Dedup ==
    /\ \A f, g \in store.files :
          (f.name = g.name /\ f.storage = g.storage /\ f.folder = g.folder) => f = g
    /\ \A j \in Jobs : \A key \in DOMAIN job[j].fileIdMap :
          [id |-> job[j].fileIdMap[key], name |-> key[3],
           storage |-> TargetStorageAdapter, folder |-> job[j].targetFolderId[1]]
             \in store.files
    /\ \A i, j \in Jobs : \A key \in DOMAIN job[i].fileIdMap \cap DOMAIN job[j].fileIdMap :
          job[i].fileIdMap[key] = job[j].fileIdMap[key]

\* the second job published a segment and the master the first job had
\* published: it got the first job's identifiers and created nothing
C9_Witness ==
    /\ PlainKey(MasterName) \in DOMAIN job[1].fileIdMap
    /\ PlainKey(MasterName) \in DOMAIN job[2].fileIdMap
    /\ PlainKey(SegName(240, 1)) \in DOMAIN job[1].fileIdMap
    /\ PlainKey(SegName(240, 1)) \in DOMAIN job[2].fileIdMap
    /\ job[2].made = {}
    /\ job[1].made # {}

\* the planned qualities whose manifest exists and is non-empty, ascending
ValidPlanned(j) ==
    SelectSeq(<<240, 480, 720, 1080, 2160>>,
              LAMBDA q : /\ \E i \in 1..Len(job[j].qualitiesRaw) : job[j].qualitiesRaw[i] = q
                         /\ QmName(q) \in DOMAIN disk
                         /\ disk[QmName(q)] # EmptyContent)

\* C10: the master manifest the job writes is the two header lines followed,
\* for each planned quality whose manifest exists and is non-empty and for no
\* other, in ascending order, by its STREAM-INF line with the fixed
\* bandwidth/resolution pair and a reference to its manifest.
C10_MasterContent ==
    \A j \in Jobs :
        job[j].pc = "folder" =>
            LET v == ValidPlanned(j)
                m == disk[MasterName]
            IN /\ m = job[j].built
               /\ Len(m) = 2 + 2 * Len(v)
               /\ m[1] = Tag(<<"#EXTM3U">>) /\ m[2] = Tag(<<"#EXT-X-VERSION:3">>)
               /\ \A i \in 1..Len(v) :
                     /\ m[2 * i + 1] = StreamInf(v[i])
                     /\ m[2 * i + 1].text[4] = v[i]
                     /\ m[2 * i + 2] = Plain(QmName(v[i]))

\* only 240 and 720 have manifests: two blocks, 240 then 720
C10_Witness ==
    \E j \in Jobs :
        /\ job[j].pc = "folder"
        /\ ValidPlanned(j) = <<240, 720>>
        /\ disk[MasterName] =
              <<Tag(<<"#EXTM3U">>), Tag(<<"#EXT-X-VERSION:3">>),
                Tag(<<"#EXT-X-STREAM-INF", 400000, 426, 240>>), Plain(QmName(240)),
                Tag(<<"#EXT-X-STREAM-INF", 2800000, 1280, 720>>), Plain(QmName(720))>>

\* the ids of the job's plan
PlannedIds(j) == {job[j].qualitiesRaw[i] : i \in 1..Len(job[j].qualitiesRaw)}

\* the job has reached the master playlist builder
AtBuild(j) == job[j].validAtBuild # <<>>

\* the planned qualities whose manifest existed with content at that moment
ValidAtBuild(j) == {q \in PlannedIds(j) : QmName(q) \in job[j].validAtBuild[1]}

\* C11: if no planned quality has an existing, non-empty manifest when the
\* master playlist is built, the job returns the typed 'no valid quality
\* playlists' error, writes no master manifest and registers neither a folder
\* nor an artifact.
C11_NoValidManifest ==
    \A j \in Jobs :
        (AtBuild(j) /\ ValidAtBuild(j) = {}) =>
            /\ job[j].pc = "done"
            /\ job[j].result = ErrorResult("No valid quality playlists found")
            /\ job[j].built = <<>>
            /\ job[j].tried = <<>>
            /\ job[j].made = {}
            /\ job[j].targetFolderId = <<>>
            /\ job[j].uploadedFiles = <<>>

\* the guard found a lone segment left by an aborted run and skipped the
\* encoder: no planned quality has a manifest
C11_Witness ==
    /\ job[1].encoded = <<[q |-> 240, o |-> "exitPartial"]>>
    /\ job[2].encoded = <<>>
    /\ AtBuild(2) /\ ValidAtBuild(2) = {}
    /\ Len(job[2].qualitiesRaw) >= 2
    /\ job[2].result.kind = "error"

\* the registrations whose failure the claim calls fatal
FatalNames(j) == {FolderName, MasterName} \cup {QmName(q) : q \in PlannedIds(j)}

\* C12 (as stated): if the registration of a per-quality manifest, of the
\* master manifest or of the target folder fails, the job ends with an error
\* and never returns a success result.
C12_Original ==
    \A j \in Jobs :
        (job[j].failed \cap FatalNames(j) # {}) => job[j].result.kind # "ok"

\* the registrations whose failure is logged and skipped
SoftNames == {ThumbName} \cup {SegName(q, i) : q \in CatalogIds, i \in 1..NSeg}

\* the names of the result's files list
FileNames(j) == {job[j].uploadedFiles[i].name : i \in 1..Len(job[j].uploadedFiles)}

\* the segments the job collected for publishing
Collected(j) == {job[j].segmentFiles[i] : i \in 1..Len(job[j].segmentFiles)}

\* job j has returned, and the only failures of its run were registrations
\* of segments or of the thumbnail
OnlySoftFailures(j) ==
    /\ job[j].pc = "done"
    /\ job[j].failed # {}
    /\ job[j].failed \subseteq SoftNames
    /\ faults[j] = Cardinality(job[j].failed)

\* C13: a failed registration of a segment or of the thumbnail does not abort
\* the job: when nothing else fails, the other segments, every per-quality
\* manifest and the master are published and a success result is returned,
\* the failed artifact is not in the files list (a failed thumbnail is null),
\* and the manifest line naming a failed segment is still the file name
\* after the rewrite.
C13_SoftFailure ==
    \A j \in Jobs :
        OnlySoftFailures(j) =>
            /\ job[j].result.kind = "ok"
            /\ job[j].result.masterId # <<>>
            /\ job[j].result.files = job[j].uploadedFiles
            /\ FileNames(j) \cap job[j].failed = {}
            /\ (ThumbName \in job[j].failed) => job[j].result.thumbnail = <<>>
            /\ Collected(j) \ job[j].failed \subseteq FileNames(j)
            /\ MasterName \in FileNames(j)
            /\ \A q \in PlannedIds(j) :
                  (QmName(q) \in job[j].validAtBuild[1]) =>
                      /\ QmName(q) \in FileNames(j)
                      /\ QmName(q) \in DOMAIN job[j].rebuilt
                      /\ \A i \in 1..NSeg :
                            SegName(q, i) \in job[j].failed =>
                                job[j].rebuilt[QmName(q)][1 + i] = Plain(SegName(q, i))

\* identifier mode, two renditions: the registration of the first segment
\* failed, the second segment and both manifests were published
C13_Witness ==
    \E j \in Jobs :
        /\ ~cfg.useFilenameDisk
        /\ OnlySoftFailures(j)
        /\ job[j].failed = {SegName(240, 1)}
        /\ job[j].result.kind = "ok"
        /\ DOMAIN job[j].rebuilt = {QmName(240), QmName(480)}
        /\ job[j].rebuilt[QmName(240)][2] = Plain(SegName(240, 1))
        /\ job[j].rebuilt[QmName(480)][2].tok[1] = "id"
        /\ FileNames(j) = {ThumbName, SegName(480, 1), QmName(240), QmName(480), MasterName}

\* C14 (as stated): a run that has ended ended with a thrown exception, with
\* a typed error result, or with a success result whose master.id is the
\* identifier of the published master manifest; no success result has a
\* null master.id.
C14_Original ==
    \A j \in Jobs :
        job[j].pc = "done" =>
            \/ job[j].result.kind \in {"throw", "error"}
            \/ /\ job[j].result.kind = "ok"
               /\ job[j].result.masterId # <<>>
               /\ \E f \in store.files :
                     f.id = job[j].result.masterId[1] /\ f.name = MasterName

\* what input validation throws
ValidationErrors ==
    {"Input file missing", "folder_id parameter is required",
     "Failed to fetch file with UUID", "Input file missing filename_disk"}

\* the messages of failures met before the source is resolved
PreflightErrors == ValidationErrors \cup {"Custom storage location does not exist"}

\* C15 (as stated): every failure after source resolution (encoder not
\* installed, encoder failure, output verification failure, folder creation
\* failure) is returned as a typed error; only the pre-flight checks throw.
C15_Original ==
    \A j \in Jobs :
        job[j].result.kind = "throw" => job[j].result.msg \in PreflightErrors

\* the inputs with which a job left validation lack the file, the folder or
\* the file's filename_disk
InvalidInput(r) ==
    \/ ~r.file
    \/ ~r.folder_id
    \/ r.fileObject = <<>>
    \/ ~r.fileObject[1].filename_disk

\* the locals show no download, no probe, no encoder call, no file written
\* and no store call
NoSideEffect(r) ==
    /\ ~r.needsCleanup
    /\ r.sourceHeight = 0
    /\ r.encoded = <<>>
    /\ r.built = <<>>
    /\ r.rebuilt = EmptyMap
    /\ r.tried = <<>>
    /\ r.made = {}
    /\ r.uploadedFiles = <<>>

ConfigurationErrors ==
    {"No storage found for location", "No storage found for target location",
     "Custom storage location does not exist"}

\* C17 (as stated): when the source location has no root, the target location
\* has no root or the custom target location has no driver, the handler
\* returns a typed error and does not throw.
C17_Original ==
    \A j \in Jobs :
        ( /\ job[j].result.kind \in {"throw", "error"}
          /\ job[j].result.msg \in ConfigurationErrors ) =>
            job[j].result.kind = "error"

\* job j returns from the cleanup in this step
Returns(j) == job[j].pc = "finish" /\ job'[j].pc = "done"

\* a file of the directory is gone after this step
SomeFileDeleted == \E n \in DOMAIN disk : n \notin DOMAIN disk'

\* C18 as stated: with a target driver other than 'local', when a successful
\* job returns the output directory holds no file beginning with the base
\* name but the source file, and no such file is deleted before the master
\* manifest publish was attempted.
C18_Original ==
    [][\A j \in Jobs :
          /\ (Returns(j) /\ ~IsLocalTarget(j)) => ReadFiles(disk') \subseteq {SrcName}
          /\ (job[j] # job'[j] /\ SomeFileDeleted) =>
                 Returns(j) /\ MasterName \in {job[j].tried[i] : i \in 1..Len(job[j].tried)}]_vars

\* C18 (amended): as C18, for the files whose deletion did not fail.
C18_RemoteCleanup ==
    [][\A j \in Jobs :
          /\ (Returns(j) /\ ~IsLocalTarget(j)) =>
                 ReadFiles(disk') \subseteq {SrcName} \cup job'[j].undeleted
          /\ (job[j] # job'[j] /\ SomeFileDeleted) =>
                 Returns(j) /\ MasterName \in {job[j].tried[i] : i \in 1..Len(job[j].tried)}]_vars

\* a remote-target job that encoded returned with every deletion done: the
\* renditions, the thumbnail and another source's file that begins with the
\* base name are gone, the source and an unrelated file are still there
C18_Witness ==
    /\ ~cfg.tgtLocal /\ cfg.srcLocal
    /\ cfg.extras = {<<"other">>, <<"unrelRend">>}
    /\ job[1].result.kind = "ok"
    /\ job[1].encoded # <<>>
    /\ job[1].undeleted = {}
    /\ job[2].pc = "validate"
    /\ DOMAIN disk = {SrcName, <<"unrelRend">>}

\* C19: a job whose target driver is 'local' deletes no file of the output
\* directory: every file there before one of its steps is there after it, so
\* the segments, manifests and thumbnail are on disk when it returns.
C19_LocalKeepsFiles ==
    [][\A j \in Jobs :
          (job[j] # job'[j] /\ job[j].targetStorageAdapter # <<>> /\ IsLocalTarget(j)) =>
              ~SomeFileDeleted]_vars

\* a local-target job has returned and its renditions, manifests and
\* thumbnail are on disk
C19_Witness ==
    /\ cfg.tgtLocal
    /\ job[1].result.kind = "ok"
    /\ job[1].encoded # <<>>
    /\ {SegName(240, 1), QmName(240), MasterName, ThumbName} \subseteq DOMAIN disk
    /\ {SegName(240, 1), QmName(240), MasterName, ThumbName} \subseteq FileNames(1)

\* C20 (as stated): once the source was downloaded to a temp file, the temp
\* file no longer exists when the job ends, with a success result, a typed
\* error or a thrown exception (a step in which a call fails is left aside).
C20_Original ==
    [][\A j \in Jobs :
          (job[j].pc # "done" /\ job'[j].pc = "done" /\ job'[j].needsCleanup
           /\ faults' = faults) => ~temp']_vars

\* the metadata substituted when the geometry probe fails
FallbackMetadata ==
    [width |-> 99999, height |-> 99999, isVertical |-> FALSE, duration |-> 0]

\* the catalog ids of a selection, none excluded
SelectedIds(q) ==
    {id \in {240, 480, 720, 1080, 2160} :
        id \in SelectedQualitiesNumbers(SelectedQualities(q))}

\* C21: the probe step never ends the job, whatever fails in it: the job goes
\* on to the planner with no result; after a failed geometry probe the
\* metadata is 99999 x 99999 with duration 0 and the plan is every selected
\* catalog id; after a failed bit-depth probe the source counts as 8-bit.
C21_ProbeFallback ==
    [][\A j \in Jobs :
          /\ (job[j].pc = "probe" /\ job'[j] # job[j]) =>
                /\ job'[j].pc = "plan"
                /\ job'[j].result = NoResult
                /\ ("geometry" \in job'[j].probeFailed) =>
                       /\ job'[j].metadata = <<FallbackMetadata>>
                       /\ job'[j].sourceHeight = 99999
                /\ ("bitdepth" \in job'[j].probeFailed) => ~job'[j].isHighBitDepth
          /\ (/\ job[j].pc = "plan" /\ job'[j] # job[j]
              /\ "geometry" \in job[j].probeFailed
              /\ ~SelectionThrows(job[j].qualities)) =>
                /\ {job'[j].qualitiesRaw[i] : i \in 1..Len(job'[j].qualitiesRaw)}
                       = SelectedIds(job[j].qualities)
                /\ (SelectedIds(job[j].qualities) # {}) => job'[j].result = NoResult]_vars

\* a job whose geometry probe failed on a 480 source has planned all five
\* qualities and returned a success result with duration 0
C21_Witness ==
    \E j \in Jobs :
        /\ cfg.height = 480
        /\ job[j].probeFailed = {"geometry"}
        /\ job[j].qualitiesRaw = <<240, 480, 720, 1080, 2160>>
        /\ job[j].metadata[1].duration = 0
        /\ job[j].result.kind = "ok"

\* a job whose bit-depth probe failed on the 10-bit source has gone on as 8-bit
C21_WitnessBitDepth ==
    \E j \in Jobs :
        /\ cfg.height = 1080
        /\ job[j].probeFailed = {"bitdepth"}
        /\ ~job[j].isHighBitDepth
        /\ job[j].result.kind = "ok"

\* C22 (as stated): the availableQualities of every success result are the
\* planned quality ids whose manifest had content when the master manifest
\* was built, the ids the master manifest lists, whatever the target.
C22_Original ==
    \A j \in Jobs :
        (job[j].result.kind = "ok") =>
            job[j].result.availableQualities =
                SelectSeq(job[j].qualitiesRaw, LAMBDA q : q \in ValidAtBuild(j))

\* the identifiers under which the job published files of one kind
\* ("seg" for segments, "qm" for per-quality manifests)
PublishedIds(j, kind) ==
    {job[j].uploadedFiles[i].id : i \in {n \in 1..Len(job[j].uploadedFiles) :
                                            job[j].uploadedFiles[n].name[1] = kind}}

\* the reference lines of a manifest
RefLines(c) == {c[i] : i \in {n \in 1..Len(c) : c[n].kind = "ref"}}

\* the job found no rendition in the output directory and an empty store
FirstRun(j) == j = 1 /\ ~job[j].hasFiles

\* C23: in identifier mode, when a first run succeeds and every registration
\* it asked for succeeded, each reference line of each per-quality manifest it
\* published is the identifier of a segment it published, and each reference
\* line of the master manifest it published is the identifier of a per-quality
\* manifest it published.
C23_IdentifierRefs ==
    \A j \in Jobs :
        (/\ ~cfg.useFilenameDisk
         /\ FirstRun(j)
         /\ job[j].result.kind = "ok"
         /\ job[j].failed = {}) =>
            /\ \A n \in DOMAIN job[j].rebuilt :
                   \A l \in RefLines(job[j].rebuilt[n]) :
                       /\ l = Plain(l.tok)
                       /\ l.tok \in PublishedIds(j, "seg")
            /\ \A l \in RefLines(job[j].newMasterLines) :
                   /\ l = Plain(l.tok)
                   /\ l.tok \in PublishedIds(j, "qm")

\* a first run in identifier mode has published two per-quality manifests
\* and a master manifest that refer to what it published
C23_Witness ==
    /\ ~cfg.useFilenameDisk
    /\ FirstRun(1)
    /\ job[1].result.kind = "ok"
    /\ job[1].failed = {}
    /\ DOMAIN job[1].rebuilt = {QmName(240), QmName(480)}
    /\ RefLines(job[1].rebuilt[QmName(480)]) # {}
    /\ Cardinality(RefLines(job[1].newMasterLines)) = 2
    /\ MasterName \in {job[1].uploadedFiles[i].name : i \in 1..Len(job[1].uploadedFiles)}

\* what the rewrite emits for one line in filename_disk mode: the trimmed
\* reference without '/assets/' when the map has it, else the line itself
ByFilename(l, map) ==
    IF l.kind \in {"tag", "blank"} \/ Unmapped(l, map) THEN l ELSE StripAssets(Trim(l))

\* C24: in filename_disk mode both rewrites (per-quality and master) keep the
\* token of every reference line: a line the map has is emitted as its
\* filename, trimmed and without '/assets/', a line the map lacks is emitted
\* unchanged, and no line becomes a store identifier.
C24_FilenameMode ==
    (rw_t.stage \in {"once", "twice"} /\ rw_t.useFilenameDisk /\ rw_t.q1 # <<>>) =>
        /\ Len(rw_t.q1) = Len(rw_t.m) /\ Len(rw_t.m1) = Len(rw_t.m)
        /\ \A i \in 1..Len(rw_t.m) :
               /\ rw_t.q1[i] = ByFilename(rw_t.m[i], rw_t.map)
               /\ rw_t.m1[i] = ByFilename(rw_t.m[i], rw_t.map)
               /\ (rw_t.m[i].kind = "ref") =>
                      /\ rw_t.q1[i].kind = "ref" /\ rw_t.q1[i].tok = rw_t.m[i].tok
                      /\ rw_t.m1[i].kind = "ref" /\ rw_t.m1[i].tok = rw_t.m[i].tok

\* a manifest whose '/assets/' reference the map has by basename was rewritten
\* in filename_disk mode to the bare filename, next to a line the map lacks
C24_Witness ==
    /\ rw_t.stage = "once"
    /\ rw_t.useFilenameDisk
    /\ rw_t.m = <<Ref(TRUE, TRUE, FALSE, RwFile), Ref(FALSE, TRUE, FALSE, Uuid(2))>>
    /\ rw_t.map = [k \in {PlainKey(RwFile)} |-> Uuid(1)]
    /\ rw_t.q1 = <<Plain(RwFile), Ref(FALSE, TRUE, FALSE, Uuid(2))>>

\* the location the selection rule names for the inputs drawn
ExpectedTarget ==
    LET default == IF Len(tgt_t.env) > 0 THEN tgt_t.env[1].name ELSE "local"
    IN CASE tgt_t.storage_adapter = "source" ->
                IF tgt_t.fileStorage # <<>> THEN tgt_t.fileStorage[1] ELSE default
         [] tgt_t.storage_adapter = "custom" /\ tgt_t.target_storage # <<>> ->
                tgt_t.target_storage[1]
         [] OTHER -> default

\* C25: the location chosen is the source file's (the default when it has
\* none) in mode 'source', the given target_storage in mode 'custom', and
\* else the default, the first entry of STORAGE_LOCATIONS or 'local' when
\* there is none; an artifact registered afterwards carries that location.
C25_TargetStorage ==
    (tgt_t.stage \in {"chosen", "registered"}) =>
        /\ tgt_t.target = <<ExpectedTarget>>
        /\ (tgt_t.stage = "registered") =>
               /\ tgt_t.records # {}
               /\ \A f \in tgt_t.records : f.storage = ExpectedTarget

\* mode 'source' with a source file on s3 and 'local' as the first
\* configured location: the artifact was registered under s3
C25_Witness ==
    /\ tgt_t.stage = "registered"
    /\ tgt_t.storage_adapter = "source"
    /\ tgt_t.fileStorage = <<"s3">>
    /\ tgt_t.env = <<Location("local", FALSE), Location("s3", TRUE)>>
    /\ \E f \in tgt_t.records : f.storage = "s3" /\ f.name = MasterName

\* the artifacts the job has asked the store to register, settled or not
Tried(j) == {job[j].tried[i] : i \in 1..Len(job[j].tried)}

\* C26: a job has at most one call in flight, encoder invocation or store
\* registration; it starts a call only when none is pending; it starts the
\* encoder for quality k only after the k-1 invocations before it all
\* resolved, and the registration of segment k only after the registrations
\* of the segments before it have returned.
C26_OneInFlight ==
    [][\A j \in Jobs :
          /\ Len(inflight'[j]) <= 1
          /\ (Len(inflight'[j]) > Len(inflight[j])) =>
                LET c == inflight'[j][Len(inflight'[j])]
                    r == job[j]
                IN /\ inflight[j] = <<>>
                   /\ (c.op = "ffmpeg") =>
                          /\ Len(r.encoded) = r.k - 1
                          /\ \A i \in 1..Len(r.encoded) :
                                 r.encoded[i] = [q |-> r.qualitiesRaw[i], o |-> "ok"]
                   /\ (r.pc = "segments") =>
                          \A i \in 1..(r.k - 1) : r.segmentFiles[i] \in Tried(j)
                   /\ (r.pc = "master") =>
                          \A n \in DOMAIN r.rebuilt : n \in Tried(j)]_vars

\* the encoder runs for the second quality of a plan after the first
\* invocation resolved, and nothing else is in flight
C26_Witness ==
    /\ inflight[1] = <<[op |-> "ffmpeg", what |-> QmName(480)]>>
    /\ job[1].encoded = <<[q |-> 240, o |-> "ok"]>>
    /\ job[1].k = 2

\* the second segment is being registered after the first registration returned
C26_WitnessRegister ==
    /\ inflight[1] = <<[op |-> "register", what |-> SegName(480, 1)]>>
    /\ SegName(240, 1) \in Tried(1)

\* the place of an artifact in the publishing order
PublishRank(n) ==
    CASE n = FolderName -> 0
      [] n = ThumbName -> 1
      [] n[1] = "seg" -> 2
      [] n[1] = "qm" -> 3
      [] n = MasterName -> 4

\* C27: in every job the target folder is the first thing asked of the
\* store, then segments, then per-quality manifests, then the master manifest,
\* which comes last; a per-quality manifest is rewritten only when every
\* collected segment has been tried, the master manifest only when every
\* rewritten per-quality manifest has been tried; and at the step a manifest
\* is handed to the store, the file on disk holds its rewritten content.
C27_PublishOrder ==
    [][\A j \in Jobs :
          LET r == job'[j]
              t == r.tried
          IN /\ (t # <<>>) => t[1] = FolderName
             /\ \A a, b \in 1..Len(t) :
                    (a < b) => /\ PublishRank(t[a]) <= PublishRank(t[b])
                               /\ t[a] # MasterName
             /\ (DOMAIN r.rebuilt # {}) =>
                    \A i \in 1..Len(r.segmentFiles) : r.segmentFiles[i] \in Tried(j)
             /\ (r.newMasterLines # <<>>) =>
                    \A n \in DOMAIN r.rebuilt : n \in {t[i] : i \in 1..Len(t)}
             /\ (Len(t) > Len(job[j].tried) /\ t[Len(t)][1] = "qm") =>
                    /\ t[Len(t)] \in DOMAIN r.rebuilt
                    /\ disk'[t[Len(t)]] = r.rebuilt[t[Len(t)]]
             /\ (Len(t) > Len(job[j].tried) /\ t[Len(t)] = MasterName) =>
                    /\ r.newMasterLines # <<>>
                    /\ disk'[MasterName] = r.newMasterLines]_vars

\* a job has asked for the folder, the thumbnail, two segments, two
\* per-quality manifests and the master manifest, in that order, and the
\* manifests it published are the rewritten ones
C27_Witness ==
    /\ job[1].tried = <<FolderName, ThumbName, SegName(240, 1), SegName(480, 1),
                        QmName(240), QmName(480), MasterName>>
    /\ ~cfg.useFilenameDisk
    /\ job[1].rebuilt[QmName(240)][2] = Plain(job[1].fileIdMap[PlainKey(SegName(240, 1))])
    /\ job[1].newMasterLines # job[1].built

\* job j returns a success result that names a master artifact
SucceedsWithMaster(j) ==
    /\ job[j].pc # "done"
    /\ job'[j].pc = "done"
    /\ job'[j].result.kind = "ok"
    /\ job'[j].masterId # <<>>

\* what the store serves for the master artifact of job j when j returns:
\* the bytes uploaded under its identifier, or the file in the storage root
MasterServed(j) ==
    IF job'[j].masterId[1] \in DOMAIN store'.bytes
    THEN store'.bytes[job'[j].masterId[1]]
    ELSE disk'[MasterName]

\* C28 (as stated): when a job returns success, the content of its master
\* artifact in the store is the master manifest it rewrote, also when the
\* record existed from an earlier run.
C28_Original ==
    [][\A j \in Jobs :
          SucceedsWithMaster(j) => MasterServed(j) = job'[j].newMasterLines]_vars

\* C29 (as stated): the master manifest of every job that returns a success
\* result has a STREAM-INF entry for every quality of the job's plan.
C29_Original ==
    \A j \in Jobs :
        (job[j].result.kind = "ok") =>
            \A q \in PlannedIds(j) :
                \E i \in 1..Len(job[j].built) : job[j].built[i] = StreamInf(q)

\* the folders of a store that carry the job's (name, parent) pair
JobFolders(st) == {f \in st.folders : f.name = BaseName /\ f.parent = ParentFolder}

\* the step of job j in which ensureFolder returned
FolderReturned(j) == job[j].pc = "folder" /\ job'[j].pc = "thumb"

\* C30: when a folder with the source base name under folder_id exists,
\* ensureFolder returns the identifier of such a folder and creates nothing;
\* when none exists it creates exactly one; and the folders of that
\* (name, parent) pair created for one job are never more than one.
C30_FolderDedup ==
    [][\A j \in Jobs :
          /\ FolderReturned(j) =>
                LET found == JobFolders(store)
                IN IF found # {}
                   THEN /\ store'.folders = store.folders
                        /\ \E f \in found : job'[j].targetFolderId = <<f.id>>
                   ELSE /\ Cardinality(store'.folders \ store.folders) = 1
                        /\ \E f \in JobFolders(store') :
                              job'[j].targetFolderId = <<f.id>>
          /\ Cardinality({f \in JobFolders(store') :
                             f.id \in job'[j].made}) <= 1]_vars

\* the second job was handed the folder the first job created
C30_Witness ==
    /\ job[1].targetFolderId # <<>>
    /\ job[1].targetFolderId[1] \in job[1].made
    /\ job[2].pc = "thumb"
    /\ job[2].targetFolderId = job[1].targetFolderId
    /\ job[2].made = {}
    /\ Cardinality(store.folders) = 1

\* the encoder invocation that job j's step just completed, if any
Invoked(j) ==
    IF Len(job'[j].encoded) = Len(job[j].encoded) + 1
    THEN <<job'[j].encoded[Len(job'[j].encoded)]>>
    ELSE <<>>

\* outcomes in which the encoder process exits with code zero
ExitZero == {"ok", "stderr", "nofile", "empty", "noheader"}

\* the three checks on <base>_<q>p.m3u8 as the directory stands after the
\* invocation
ManifestVerified(d, q) ==
    /\ QmName(q) \in DOMAIN d
    /\ d[QmName(q)] # EmptyContent
    /\ \E i \in 1..Len(d[QmName(q)]) : d[QmName(q)][i] = Tag(<<"#EXTM3U">>)

\* C31: an encoder invocation is reported successful (the job goes on) only
\* if it exited zero and the expected manifest exists, is non-empty and has
\* the #EXTM3U header; an invocation that exited zero and fails one of the
\* three checks is reported as a failure (the job throws).
C31_VerifiedSuccess ==
    [][\A j \in Jobs :
          Invoked(j) # <<>> =>
              LET e == Invoked(j)[1]
              IN /\ job'[j].result.kind # "throw" =>
                       e.o \in ExitZero /\ ManifestVerified(disk', e.q)
                 /\ (e.o \in ExitZero /\ ~ManifestVerified(disk', e.q)) =>
                       job'[j].result.kind = "throw"]_vars

\* a first quality passed verification and the second left a manifest with
\* no header although the encoder exited zero
C31_Witness ==
    /\ Len(job[1].encoded) = 2
    /\ job[1].encoded[1].o = "ok"
    /\ job[1].encoded[2].o = "noheader"
    /\ job[1].result.kind = "throw"
    /\ QmName(job[1].encoded[2].q) \in DOMAIN disk
    /\ disk[QmName(job[1].encoded[2].q)] # EmptyContent

\* the step of job j that runs the cleanup and returns
CleanedUp(j) == job[j].pc = "finish" /\ job'[j].pc = "done"

\* C32: whether or not a deletion of a local artifact or of the temp source
\* file fails during cleanup, the job returns a success result whose master
\* id and files list are the ones it held before the cleanup, hence the same
\* as when every deletion succeeds.
C32_CleanupNeverFatal ==
    [][\A j \in Jobs :
          CleanedUp(j) =>
              /\ job'[j].result.kind = "ok"
              /\ job'[j].result.masterId = job[j].masterId
              /\ job'[j].result.files = job[j].uploadedFiles]_vars

\* a job returned success although one artifact could not be deleted, and
\* another although its temp source file could not be deleted
C32_Witness ==
    /\ job[1].pc = "done" /\ job[1].result.kind = "ok"
    /\ job[1].undeleted # {}
    /\ job[1].undeleted \subseteq DOMAIN disk
    /\ job[1].result.files # <<>>

C32_WitnessTemp ==
    /\ job[1].pc = "done" /\ job[1].result.kind = "ok"
    /\ job[1].needsCleanup /\ temp
    /\ job[1].undeleted = {}

\* the step of job j that scans the output directory (1066-1067)
GuardScanned(j) == job[j].pc = "plan" /\ job'[j].pc \in {"encode", "build"}

\* a file of the directory d that the guard takes for a rendition
RenditionIn(d) == \E n \in DOMAIN d : StartsWithBase(n) /\ HasQualityMarker(n)

\* C33: the guard of a job decides on the names in the output directory at
\* the moment of its scan and on nothing else, so it does not exclude an
\* overlapping job: a job skips the encoder exactly when a rendition file is
\* there, wherever the other job stands.  The two interleavings of the claim
\* are C33_Witness and C33_WitnessSkip.
C33_GuardNoExclusion ==
    [][\A j \in Jobs :
          GuardScanned(j) =>
              /\ (job'[j].pc = "build") = RenditionIn(disk)
              /\ job'[j].hasFiles = RenditionIn(disk)]_vars

\* both jobs passed the guard scan and both invoked the encoder for 240p
C33_Witness ==
    /\ ~job[1].hasFiles /\ ~job[2].hasFiles
    /\ job[1].encoded # <<>> /\ job[2].encoded # <<>>
    /\ job[1].encoded[1].q = 240 /\ job[2].encoded[1].q = 240
    /\ job[1].pc = "encode" /\ job[2].pc = "encode"

\* job 2 scanned while job 1 had encoded 240p of its plan 240p, 480p: job 2
\* skipped the encoder and built a master manifest with 240p alone
C33_WitnessSkip ==
    /\ job[1].pc = "encode"
    /\ Len(job[1].encoded) = 1 /\ Len(job[1].qualitiesRaw) = 2
    /\ job[2].hasFiles /\ job[2].encoded = <<>>
    /\ job[2].qualitiesRaw = <<240, 480>>
    /\ job[2].built = MasterHeader \o <<StreamInf(240), Plain(QmName(240))>>

\* C34 (as stated): when two jobs overlap for the same source, target
\* storage location and parent folder, the store holds at most one folder
\* for each (name, parent) pair and at most one file record for each
\* (basename, storage location, folder) triple.
C34_Original ==
    /\ \A f, g \in store.folders :
          (f.name = g.name /\ f.parent = g.parent) => f = g
    /\ \A f, g \in store.files :
          (f.name = g.name /\ f.storage = g.storage /\ f.folder = g.folder) => f = g

\* the second half of C34 alone: no two file records with the same triple
C34_OriginalFiles ==
    \A f, g \in store.files :
        (f.name = g.name /\ f.storage = g.storage /\ f.folder = g.folder) => f = g

\* the files of the output directory that belong to another source
ForeignFiles == {<<"other">>, <<"otherRend">>, <<"unrelRend">>}

\* C35 (as stated): the cleanup of a job with a remote target deletes only
\* files the job produced; a file of another source that lies in the output
\* directory, its name beginning with the job's base name or not, is still
\* there after the cleanup.
C35_Original ==
    [][\A j \in Jobs :
          (CleanedUp(j) /\ ~IsLocalTarget(j)) =>
              \A n \in ForeignFiles \cap DOMAIN disk : n \in DOMAIN disk']_vars

====
